---- MODULE Spec2Model ----
(***************************************************************************)
(* livv: client-side end-to-end encryption core.                           *)
(*                                                                         *)
(* Keys are symbolic terms.  A private ECDH key is a natural number, its   *)
(* public JWK is the record [x |-> k, y |-> k]; ECDH(priv, pub) is the     *)
(* unordered pair of the two private scalars, so that both sides of an     *)
(* exchange obtain the same bits.  HKDF / HMAC outputs are tagged tuples   *)
(* of their inputs.  AES-GCM ciphertexts carry the key and IV they were    *)
(* produced with and an integrity flag that an in-transit alteration       *)
(* clears.                                                                 *)
(***************************************************************************)
EXTENDS Integers, Sequences, FiniteSets, TLC

VARIABLES
    walletAddress,  \* useAuthStore.walletAddress of each client
    store,          \* useEncryptionStore state of each client
    ops,            \* asynchronous store actions between their get() and set()
    net,            \* frames relayed and not yet handled by the recipient
    nextKey,        \* next fresh key generated by crypto.subtle.generateKey
    sendCount,      \* number of encryptOutgoing calls issued by each client
    emitted,        \* history: results returned by encryptOutgoing
    results,        \* history: results returned by decryptIncoming
    lastRatchet,    \* history: sendingChainIndex replaced by the last DH ratchet
    connectionStatus,    \* useWebSocketStore.connectionStatus of each client
    handshakedPeers,     \* useEncryptionSetup: handshakedPeers.current
    hasBroadcastedJoin,  \* usePresence: hasBroadcastedJoin.current
    x3dhLog,        \* history: x3dh_init frames sent, root keys computed, resets, re-keys
    transfers,      \* useFileTransferStore.transfers of each client
    webSocket       \* useWebSocketStore of one client, with the sockets it has created

setupVars == <<connectionStatus, handshakedPeers, hasBroadcastedJoin, x3dhLog, transfers,
               webSocket>>

messagingVars == <<emitted, results, lastRatchet>>

vars == <<walletAddress, store, ops, net, nextKey, sendCount, emitted, results,
          lastRatchet, connectionStatus, handshakedPeers, hasBroadcastedJoin, x3dhLog,
          transfers, webSocket>>

\* ---------------------------------------------------------------- bounds
MaxSendInitiator == 3
MaxSendResponder == 1
SeqSendInitiator == 4
SeqSendResponder == 1
MaxPending == 2
MaxTamper == 1
SkipSent == 103
HdrSendInitiator == 2
HdrSendResponder == 1
RekeySend == 2
LeaveSend == 2
TotalChunks == 3
MaxFiles == 1
MaxChunkPending == 2
SeedCount == 2
RoomCount == 2
MaxDerive == 3
SkipRounds == 10
DupSendInitiator == 2
DupSendResponder == 1
PermSend == 4
LateSend == 3
MaxSockets == 6
JoinSend == 4
JoinPending == 1

\* ------------------------------------------------------- program constants
MAX_SKIP == 100
MAX_RECONNECT_ATTEMPTS == 5

Clients == {1, 2}
Peer(c) == 3 - c

NULL == <<>>

\* value of lastRatchet while a client has performed no DH ratchet step; after
\* one it is the singleton of the sendingChainIndex the step replaced
NoRatchet == {}

\* useWebSocketStore after create(): no socket (socket is the empty set, or the
\* singleton of the socket's number), and, beside the store's fields, the
\* readyState of every WebSocket created so far, the number of reconnect timers
\* that are pending, and history: left, whether the last call of the
\* application was disconnect(); closes, the closes since the last open
WS_INITIAL_STATE ==
    [connectionStatus |-> "disconnected", socket |-> {}, reconnectAttempts |-> 0,
     readyState |-> <<>>, timers |-> 0, left |-> TRUE, closes |-> 0]

\* ------------------------------------------------------------- primitives
\* exportPublicKey: the JWK of the public half of a key pair
exportPublicKey(priv) == [x |-> priv, y |-> priv]

\* generateEphemeralKeyPair
generateEphemeralKeyPair(k) == [publicKey |-> exportPublicKey(k), privateKey |-> k]

\* crypto.subtle.deriveBits({name: "ECDH", public}, private)
ecdhDeriveBits(privateKey, publicKeyJwk) == {privateKey, publicKeyJwk.x}

\* aesGcmEncrypt: fresh IV, ciphertext with the GCM tag appended
aesGcmEncrypt(key, plaintext, iv) ==
    [ciphertext |-> [key |-> key, iv |-> iv, pt |-> plaintext, intact |-> TRUE],
     iv |-> iv]

\* a decryption that does not verify the GCM tag over the ciphertext bytes
aesGcmDecrypt_NoTag(key, ciphertext, iv) ==
    IF ciphertext.key = key /\ ciphertext.iv = iv
    THEN [ok |-> TRUE, plaintext |-> ciphertext.pt]
    ELSE [ok |-> FALSE, plaintext |-> NULL]

\* aesGcmDecrypt: throws (ok = FALSE) on a tag mismatch
aesGcmDecrypt(key, ciphertext, iv) ==
    IF ciphertext.intact /\ ciphertext.key = key /\ ciphertext.iv = iv
    THEN [ok |-> TRUE, plaintext |-> ciphertext.pt]
    ELSE [ok |-> FALSE, plaintext |-> NULL]

\* symmetricRatchet.ratchetStep: nextChainKey = HMAC(ck, 0x01), messageKey = HMAC(ck, 0x02)
\* a chain key is the n-fold HMAC(., 0x01) image of the chain's first key
ratchetStep(chainKey) ==
    [nextChainKey |-> [base |-> chainKey.base, n |-> chainKey.n + 1],
     messageKey |-> <<"mk", chainKey.base, chainKey.n>>]

\* the chain key reached after k successive ratchetStep calls, each of which
\* continues with nextChainKey
ratchetN(chainKey, k) ==
    IF k <= 0 THEN chainKey ELSE [base |-> chainKey.base, n |-> chainKey.n + k]

\* ------------------------------------------------------------------- X3DH
\* a root key derivation whose responder does not mirror DH1 and DH2
computeX3DHRootKey_Unmirrored(myIdentityPrivate, myEphemeralPrivate, theirIdentityPublicJwk, theirEphemeralPublicJwk, isInitiator) ==
    <<"x3dh", ecdhDeriveBits(myEphemeralPrivate, theirIdentityPublicJwk),
              ecdhDeriveBits(myIdentityPrivate, theirEphemeralPublicJwk),
              ecdhDeriveBits(myEphemeralPrivate, theirEphemeralPublicJwk)>>

\* computeX3DHRootKey: HKDF(DH1 || DH2 || DH3)
computeX3DHRootKey(myIdentityPrivate, myEphemeralPrivate, theirIdentityPublicJwk, theirEphemeralPublicJwk, isInitiator) ==
    LET dh1 == IF isInitiator
               THEN ecdhDeriveBits(myEphemeralPrivate, theirIdentityPublicJwk)
               ELSE ecdhDeriveBits(myIdentityPrivate, theirEphemeralPublicJwk)
        dh2 == IF isInitiator
               THEN ecdhDeriveBits(myIdentityPrivate, theirEphemeralPublicJwk)
               ELSE ecdhDeriveBits(myEphemeralPrivate, theirIdentityPublicJwk)
        dh3 == ecdhDeriveBits(myEphemeralPrivate, theirEphemeralPublicJwk)
    IN  <<"x3dh", dh1, dh2, dh3>>

\* createX3DHInitMessage
createX3DHInitMessage(identityKeyPair, myAddress, k) ==
    [initMessage |-> [identityPublicKey |-> identityKeyPair.publicKey,
                      ephemeralPublicKey |-> exportPublicKey(k),
                      fromAddress |-> myAddress],
     ephemeralKeyPair |-> generateEphemeralKeyPair(k)]

\* respondToX3DH
respondToX3DH(initMessage, myIdentityKeyPair, myAddress, k) ==
    [responseMessage |-> [identityPublicKey |-> myIdentityKeyPair.publicKey,
                          ephemeralPublicKey |-> exportPublicKey(k),
                          fromAddress |-> myAddress],
     rootKey |-> computeX3DHRootKey(myIdentityKeyPair.privateKey, k,
                                    initMessage.identityPublicKey,
                                    initMessage.ephemeralPublicKey, FALSE),
     ephemeralKeyPair |-> generateEphemeralKeyPair(k)]

\* completeX3DH
completeX3DH(responseMessage, myIdentityKeyPair, myEphemeralKeyPair) ==
    [rootKey |-> computeX3DHRootKey(myIdentityKeyPair.privateKey,
                                    myEphemeralKeyPair.privateKey,
                                    responseMessage.identityPublicKey,
                                    responseMessage.ephemeralPublicKey, TRUE)]

\* --------------------------------------------------------- Double Ratchet
\* dhRatchetStep: ECDH, then HKDF over rootKey || dh with two salts
dhRatchetStep(rootKey, myPrivateKey, theirPublicKeyJwk) ==
    LET dhOutput == ecdhDeriveBits(myPrivateKey, theirPublicKeyJwk)
    IN  [sendingChain |-> [base |-> <<"chain", rootKey, dhOutput>>, n |-> 0],
         newRootKey |-> <<"root", rootKey, dhOutput>>]

\* initializeDoubleRatchet; k is the DH key pair it generates
initializeDoubleRatchet(rootKey, isInitiator, remoteDhPublicKey, k) ==
    LET first == isInitiator /\ remoteDhPublicKey # NULL
        step == dhRatchetStep(rootKey, k, remoteDhPublicKey)
    IN  [dhKeyPair |-> generateEphemeralKeyPair(k),
         remoteDhPublicKey |-> remoteDhPublicKey,
         rootKey |-> IF first THEN step.newRootKey ELSE rootKey,
         sendingChainKey |-> IF first THEN step.sendingChain ELSE NULL,
         sendingChainIndex |-> 0,
         receivingChainKey |-> NULL,
         receivingChainIndex |-> 0,
         skippedMessageKeys |-> <<>>]

makeSkippedKeyId(dhPublicKey, index) == <<dhPublicKey.x, dhPublicKey.y, index>>

\* Map.set / Map.delete on skippedMessageKeys
MapSet(m, k, v) == [i \in (DOMAIN m) \cup {k} |-> IF i = k THEN v ELSE m[i]]
MapDelete(m, k) == [i \in (DOMAIN m) \ {k} |-> m[i]]

\* encryptWithDoubleRatchet; ok = FALSE when it throws
encryptWithDoubleRatchet(state, plaintext, senderAddress, iv) ==
    IF state.sendingChainKey = NULL
    THEN [ok |-> FALSE, message |-> NULL, nextState |-> state]
    ELSE LET step == ratchetStep(state.sendingChainKey)
             enc == aesGcmEncrypt(step.messageKey, plaintext, iv)
         IN  [ok |-> TRUE,
              message |-> [senderAddress |-> senderAddress,
                           senderDhPublicKey |-> state.dhKeyPair.publicKey,
                           previousChainLength |-> state.sendingChainIndex,
                           chainIndex |-> state.sendingChainIndex,
                           ciphertext |-> enc.ciphertext,
                           iv |-> enc.iv],
              nextState |-> [state EXCEPT !.sendingChainKey = step.nextChainKey,
                                          !.sendingChainIndex = state.sendingChainIndex + 1]]

\* a skipMessageKeys that already throws at MAX_SKIP steps
skipMessageKeys_OffByOne(state, fromIndex, toIndex) ==
    IF state.receivingChainKey = NULL THEN [ok |-> TRUE, state |-> state]
    ELSE IF toIndex - fromIndex >= MAX_SKIP THEN [ok |-> FALSE, state |-> state]
    ELSE [ok |-> TRUE,
          state |-> [state EXCEPT
              !.receivingChainKey = ratchetN(state.receivingChainKey, toIndex - fromIndex),
              !.receivingChainIndex = toIndex,
              !.skippedMessageKeys =
                  [id \in (DOMAIN state.skippedMessageKeys) \cup
                          {makeSkippedKeyId(state.remoteDhPublicKey, i) :
                              i \in fromIndex .. (toIndex - 1)} |->
                      IF id \in DOMAIN state.skippedMessageKeys
                      THEN state.skippedMessageKeys[id]
                      ELSE ratchetStep(ratchetN(state.receivingChainKey,
                                                id[3] - fromIndex)).messageKey]]]

\* skipMessageKeys; ok = FALSE when it throws
skipMessageKeys(state, fromIndex, toIndex) ==
    IF state.receivingChainKey = NULL THEN [ok |-> TRUE, state |-> state]
    ELSE IF toIndex - fromIndex > MAX_SKIP THEN [ok |-> FALSE, state |-> state]
    ELSE LET ids == {i \in fromIndex .. (toIndex - 1) : TRUE}
             keyAt(i) == ratchetStep(ratchetN(state.receivingChainKey, i - fromIndex)).messageKey
             newIds == {makeSkippedKeyId(state.remoteDhPublicKey, i) : i \in ids}
             newSkipped ==
                 [id \in (DOMAIN state.skippedMessageKeys) \cup newIds |->
                     IF id \in newIds THEN keyAt(id[3]) ELSE state.skippedMessageKeys[id]]
         IN  [ok |-> TRUE,
              state |-> [state EXCEPT
                  !.receivingChainKey = ratchetN(state.receivingChainKey, Cardinality(ids)),
                  !.receivingChainIndex = toIndex,
                  !.skippedMessageKeys = newSkipped]]

\* decryptWithDoubleRatchet; k is the DH key pair a ratchet step generates.
\* ok = FALSE when it throws; ratcheted tells whether a DH ratchet step ran.
decryptWithDoubleRatchet(state, message, k) ==
    LET skippedKeyId == makeSkippedKeyId(message.senderDhPublicKey, message.chainIndex)
        Throw == [ok |-> FALSE, plaintext |-> NULL, nextState |-> state, ratcheted |-> FALSE]
    IN
    IF skippedKeyId \in DOMAIN state.skippedMessageKeys
    THEN LET dec == aesGcmDecrypt(state.skippedMessageKeys[skippedKeyId],
                                  message.ciphertext, message.iv)
         IN  IF ~dec.ok THEN Throw
             ELSE [ok |-> TRUE, plaintext |-> dec.plaintext,
                   nextState |-> [state EXCEPT !.skippedMessageKeys =
                                      MapDelete(state.skippedMessageKeys, skippedKeyId)],
                   ratcheted |-> FALSE]
    ELSE
    LET isNewDhKey ==
            \/ state.remoteDhPublicKey = NULL
            \/ state.remoteDhPublicKey.x # message.senderDhPublicKey.x
            \/ state.remoteDhPublicKey.y # message.senderDhPublicKey.y
        \* skip the remaining messages of the old receiving chain
        oldSkip == IF isNewDhKey /\ state.receivingChainKey # NULL
                   THEN skipMessageKeys(state, state.receivingChainIndex,
                                        message.previousChainLength)
                   ELSE [ok |-> TRUE, state |-> state]
        s1 == oldSkip.state
        recv == dhRatchetStep(s1.rootKey, s1.dhKeyPair.privateKey, message.senderDhPublicKey)
        newDhKeyPair == generateEphemeralKeyPair(k)
        send == dhRatchetStep(recv.newRootKey, newDhKeyPair.privateKey,
                              message.senderDhPublicKey)
        s2 == IF isNewDhKey
              THEN [s1 EXCEPT !.dhKeyPair = newDhKeyPair,
                              !.remoteDhPublicKey = message.senderDhPublicKey,
                              !.rootKey = send.newRootKey,
                              !.receivingChainKey = recv.sendingChain,
                              !.receivingChainIndex = 0,
                              !.sendingChainKey = send.sendingChain,
                              !.sendingChainIndex = 0]
              ELSE s1
        \* skip any messages in the current receiving chain
        curSkip == IF s2.receivingChainIndex < message.chainIndex
                   THEN skipMessageKeys(s2, s2.receivingChainIndex, message.chainIndex)
                   ELSE [ok |-> TRUE, state |-> s2]
        s3 == curSkip.state
    IN
    IF ~oldSkip.ok THEN Throw
    ELSE IF ~curSkip.ok THEN Throw
    ELSE IF s3.receivingChainKey = NULL THEN Throw
    ELSE LET step == ratchetStep(s3.receivingChainKey)
             dec == aesGcmDecrypt(step.messageKey, message.ciphertext, message.iv)
         IN  IF ~dec.ok THEN Throw
             ELSE [ok |-> TRUE, plaintext |-> dec.plaintext,
                   nextState |-> [s3 EXCEPT !.receivingChainKey = step.nextChainKey,
                                            !.receivingChainIndex = message.chainIndex + 1],
                   ratcheted |-> isNewDhKey]

\* a ratchetToIndex that files each skipped message key under the index before it
ratchetToIndex_ShiftedSkippedKeys(chainKey, currentIndex, targetIndex, maxSkip) ==
    LET stepsToSkip == targetIndex - currentIndex
    IN  IF stepsToSkip < 0 \/ stepsToSkip > maxSkip
        THEN [ok |-> FALSE, chainKey |-> chainKey, messageKey |-> NULL, skippedKeys |-> <<>>]
        ELSE LET currentKey == ratchetN(chainKey, stepsToSkip)
                 step == ratchetStep(currentKey)
             IN  [ok |-> TRUE,
                  chainKey |-> step.nextChainKey,
                  messageKey |-> step.messageKey,
                  skippedKeys |-> [i \in currentIndex .. (targetIndex - 1) |->
                      ratchetStep(ratchetN(chainKey, i - currentIndex + 1)).messageKey]]

\* ------------------------------------------------------------ sender keys
\* ratchetToIndex; ok = FALSE when it throws
ratchetToIndex(chainKey, currentIndex, targetIndex, maxSkip) ==
    LET stepsToSkip == targetIndex - currentIndex
    IN  IF stepsToSkip < 0 \/ stepsToSkip > maxSkip
        THEN [ok |-> FALSE, chainKey |-> chainKey, messageKey |-> NULL, skippedKeys |-> <<>>]
        ELSE LET currentKey == ratchetN(chainKey, stepsToSkip)
                 step == ratchetStep(currentKey)
             IN  [ok |-> TRUE,
                  chainKey |-> step.nextChainKey,
                  messageKey |-> step.messageKey,
                  skippedKeys |-> [i \in currentIndex .. (targetIndex - 1) |->
                      ratchetStep(ratchetN(chainKey, i - currentIndex)).messageKey]]

\* createSenderKeyState; k is the random chain key
createSenderKeyState(senderAddress, k) ==
    [senderAddress |-> senderAddress,
     chainKey |-> [base |-> <<"sk", k>>, n |-> 0],
     chainIndex |-> 0,
     skippedMessageKeys |-> <<>>]

\* encryptWithSenderKey
encryptWithSenderKey(state, plaintext, iv) ==
    LET step == ratchetStep(state.chainKey)
        enc == aesGcmEncrypt(step.messageKey, plaintext, iv)
    IN  [encrypted |-> [senderAddress |-> state.senderAddress,
                        chainIndex |-> state.chainIndex,
                        ciphertext |-> enc.ciphertext,
                        iv |-> enc.iv],
         nextState |-> [state EXCEPT !.chainKey = step.nextChainKey,
                                     !.chainIndex = state.chainIndex + 1,
                                     !.skippedMessageKeys = <<>>]]

\* a decryptWithSenderKey that leaves a skipped key in the map after using it
decryptWithSenderKey_KeepsSkippedKey(state, encrypted) ==
    LET Throw == [ok |-> FALSE, plaintext |-> NULL, nextState |-> state]
        Return(dec, next) == IF dec.ok
                             THEN [ok |-> TRUE, plaintext |-> dec.plaintext, nextState |-> next]
                             ELSE Throw
    IN
    IF encrypted.chainIndex \in DOMAIN state.skippedMessageKeys
    THEN Return(aesGcmDecrypt(state.skippedMessageKeys[encrypted.chainIndex],
                              encrypted.ciphertext, encrypted.iv),
                state)
    ELSE IF encrypted.chainIndex < state.chainIndex THEN Throw
    ELSE IF encrypted.chainIndex = state.chainIndex
    THEN LET step == ratchetStep(state.chainKey)
         IN  Return(aesGcmDecrypt(step.messageKey, encrypted.ciphertext, encrypted.iv),
                    [state EXCEPT !.chainKey = step.nextChainKey,
                                  !.chainIndex = state.chainIndex + 1])
    ELSE LET r == ratchetToIndex(state.chainKey, state.chainIndex, encrypted.chainIndex,
                                 MAX_SKIP)
             mergedSkipped == [i \in (DOMAIN state.skippedMessageKeys) \cup
                                     (DOMAIN r.skippedKeys) |->
                                  IF i \in DOMAIN r.skippedKeys THEN r.skippedKeys[i]
                                  ELSE state.skippedMessageKeys[i]]
         IN  IF ~r.ok THEN Throw
             ELSE Return(aesGcmDecrypt(r.messageKey, encrypted.ciphertext, encrypted.iv),
                         [senderAddress |-> state.senderAddress,
                          chainKey |-> r.chainKey,
                          chainIndex |-> encrypted.chainIndex + 1,
                          skippedMessageKeys |-> mergedSkipped])

\* decryptWithSenderKey; ok = FALSE when it throws
decryptWithSenderKey(state, encrypted) ==
    LET Throw == [ok |-> FALSE, plaintext |-> NULL, nextState |-> state]
        Return(dec, next) == IF dec.ok
                             THEN [ok |-> TRUE, plaintext |-> dec.plaintext, nextState |-> next]
                             ELSE Throw
    IN
    IF encrypted.chainIndex \in DOMAIN state.skippedMessageKeys
    THEN Return(aesGcmDecrypt(state.skippedMessageKeys[encrypted.chainIndex],
                              encrypted.ciphertext, encrypted.iv),
                [state EXCEPT !.skippedMessageKeys = MapDelete(@, encrypted.chainIndex)])
    ELSE IF encrypted.chainIndex < state.chainIndex THEN Throw
    ELSE IF encrypted.chainIndex = state.chainIndex
    THEN LET step == ratchetStep(state.chainKey)
         IN  Return(aesGcmDecrypt(step.messageKey, encrypted.ciphertext, encrypted.iv),
                    [state EXCEPT !.chainKey = step.nextChainKey,
                                  !.chainIndex = state.chainIndex + 1])
    ELSE LET r == ratchetToIndex(state.chainKey, state.chainIndex, encrypted.chainIndex,
                                 MAX_SKIP)
             mergedSkipped == [i \in (DOMAIN state.skippedMessageKeys) \cup
                                     (DOMAIN r.skippedKeys) |->
                                  IF i \in DOMAIN r.skippedKeys THEN r.skippedKeys[i]
                                  ELSE state.skippedMessageKeys[i]]
         IN  IF ~r.ok THEN Throw
             ELSE Return(aesGcmDecrypt(r.messageKey, encrypted.ciphertext, encrypted.iv),
                         [senderAddress |-> state.senderAddress,
                          chainKey |-> r.chainKey,
                          chainIndex |-> encrypted.chainIndex + 1,
                          skippedMessageKeys |-> mergedSkipped])

\* ------------------------------------------------------ encryption store
INITIAL_STATE ==
    [encryptionKeyPair |-> NULL,
     encryptionStatus |-> "idle",
     encryptionMode |-> NULL,
     peerPublicKeys |-> <<>>,
     doubleRatchetState |-> NULL,
     pendingX3DHEphemeralKeyPair |-> NULL,
     mySenderKeyState |-> NULL,
     peerSenderKeys |-> <<>>]

\* String.prototype.toLowerCase on an address given as a sequence of code units
toLowerCase(s) == [i \in DOMAIN s |-> IF s[i] >= 65 /\ s[i] <= 90 THEN s[i] + 32 ELSE s[i]]

\* the < operator of JavaScript on two strings (code unit order)
RECURSIVE StrLess(_, _)
StrLess(s, t) ==
    IF t = <<>> THEN FALSE
    ELSE IF s = <<>> THEN TRUE
    ELSE IF Head(s) # Head(t) THEN Head(s) < Head(t)
    ELSE StrLess(Tail(s), Tail(t))

\* state written by respondToDirectSession; identity is the key pair read by get(),
\* kEph: ephemeral pair of respondToX3DH, kDr: pair generated by initializeDoubleRatchet
respondToDirectSessionState(st, initMessage, identity, myAddress, kEph, kDr) ==
    LET r == respondToX3DH(initMessage, identity, myAddress, kEph)
        drState == initializeDoubleRatchet(r.rootKey, FALSE, initMessage.ephemeralPublicKey, kDr)
    IN  [st EXCEPT !.doubleRatchetState =
                       [drState EXCEPT !.dhKeyPair =
                           [publicKey |-> exportPublicKey(kEph),
                            privateKey |-> r.ephemeralKeyPair.privateKey]],
                   !.encryptionStatus = "ready"]

\* state written by completeDirectSession; pending is the ephemeral pair read by get()
completeDirectSessionState(st, response, identity, pending, kDr) ==
    LET r == completeX3DH(response, identity, pending)
        drState == initializeDoubleRatchet(r.rootKey, TRUE, response.ephemeralPublicKey, kDr)
    IN  [st EXCEPT !.doubleRatchetState = drState,
                   !.pendingX3DHEphemeralKeyPair = NULL,
                   !.encryptionStatus = "ready"]

\* state written by handleReceivedSenderKey for the chain key it has unwrapped
handleReceivedSenderKeyState(st, fromAddress, chainKey) ==
    [st EXCEPT !.peerSenderKeys =
                   MapSet(@, toLowerCase(fromAddress),
                          [senderAddress |-> fromAddress, chainKey |-> chainKey,
                           chainIndex |-> 0, skippedMessageKeys |-> <<>>]),
               !.encryptionStatus = "ready"]

\* ------------------------------------------------------------ messaging
PendingOf(c) == {o \in ops : o.client = c}

\* sendChatMessage up to the await inside encryptOutgoing: get() reads the store
SendChatStart(c, maxSend, maxPending) ==
    /\ sendCount[c] < maxSend
    /\ Cardinality(PendingOf(c)) < maxPending
    /\ store[c].encryptionStatus = "ready"
    /\ store[c].encryptionMode = "direct"
    /\ store[c].doubleRatchetState # NULL
    /\ ops' = ops \cup {[client |-> c, kind |-> "encrypt", mid |-> <<c, sendCount[c]>>,
                         snap |-> store[c].doubleRatchetState, frame |-> NULL]}
    /\ sendCount' = [sendCount EXCEPT ![c] = @ + 1]
    /\ UNCHANGED <<walletAddress, store, net, nextKey, emitted, results, lastRatchet, setupVars>>

\* encryptOutgoing after the await: set({doubleRatchetState: nextState}), and the
\* rest of sendChatMessage: broadcast of the encrypted frame, or of the plaintext
\* when encryptOutgoing threw
EncryptOutgoingDone(o) ==
    /\ o \in ops /\ o.kind = "encrypt"
    /\ LET c == o.client
           r == encryptWithDoubleRatchet(o.snap, o.mid, walletAddress[c], o.mid)
       IN  /\ store' = IF r.ok THEN [store EXCEPT ![c].doubleRatchetState = r.nextState]
                       ELSE store
           /\ emitted' = emitted \cup
                  {[mid |-> o.mid, from |-> c, ok |-> r.ok, message |-> r.message,
                    prevLen |-> IF r.ok /\ o.snap.sendingChainIndex = 0
                                THEN lastRatchet[c] ELSE NoRatchet]}
           /\ net' = net \cup {[to |-> Peer(c), type |-> "chat", mid |-> o.mid,
                                sender |-> walletAddress[c],
                                data |-> IF r.ok THEN r.message ELSE [text |-> o.mid]]}
    /\ ops' = ops \ {o}
    /\ UNCHANGED <<walletAddress, nextKey, sendCount, results, lastRatchet, setupVars>>

\* an alteration of the ciphertext bytes of a relayed chat frame
Altered(f) == [f EXCEPT !.data.ciphertext.intact = FALSE]

\* socket.onmessage -> handleIncomingMessage, case "chat", up to the await inside
\* decryptIncoming: get() reads the store.  The relay may have altered the frame.
HandleChatStart(c, f, alter, maxPending) ==
    /\ f \in net /\ f.to = c /\ f.type = "chat"
    /\ "ciphertext" \in DOMAIN f.data
    /\ Cardinality(PendingOf(c)) < maxPending
    /\ alter => Cardinality({r \in results : ~r.intact}) +
                Cardinality({o \in ops : o.kind = "decrypt" /\ ~o.frame.data.ciphertext.intact})
                    < MaxTamper
    /\ toLowerCase(f.sender) # toLowerCase(walletAddress[c])
    /\ store[c].encryptionMode = "direct"
    /\ store[c].doubleRatchetState # NULL
    /\ net' = net \ {f}
    /\ ops' = ops \cup {[client |-> c, kind |-> "decrypt", mid |-> f.mid,
                         snap |-> store[c].doubleRatchetState,
                         frame |-> IF alter THEN Altered(f) ELSE f]}
    /\ UNCHANGED <<walletAddress, store, nextKey, sendCount, emitted, results, lastRatchet, setupVars>>

\* history: how far the chainIndex of the message lies ahead of the receiving
\* index the call has read for the chain of the message
Ahead(o) ==
    IF o.kind = "decryptGroup" THEN o.frame.data.chainIndex - o.snap.chainIndex
    ELSE o.frame.data.chainIndex -
            (IF o.snap.remoteDhPublicKey = o.frame.data.senderDhPublicKey
             THEN o.snap.receivingChainIndex ELSE 0)

\* decryptIncoming after the await: set({doubleRatchetState: nextState}) and return
\* the plaintext, or catch the error and return null
DecryptIncomingDone(o) ==
    /\ o \in ops /\ o.kind = "decrypt"
    /\ LET c == o.client
           r == decryptWithDoubleRatchet(o.snap, o.frame.data, nextKey)
       IN  /\ store' = IF r.ok THEN [store EXCEPT ![c].doubleRatchetState = r.nextState]
                       ELSE store
           /\ results' = results \cup
                  {[mid |-> o.mid, to |-> c, plaintext |-> r.plaintext,
                    intact |-> o.frame.data.ciphertext.intact,
                    late |-> o.snap.remoteDhPublicKey.x > o.frame.data.senderDhPublicKey.x,
                    ahead |-> Ahead(o)]}
           /\ lastRatchet' = IF r.ok /\ r.ratcheted
                             THEN [lastRatchet EXCEPT ![c] = {store[c].doubleRatchetState.sendingChainIndex}]
                             ELSE lastRatchet
           /\ nextKey' = IF r.ok /\ r.ratcheted THEN nextKey + 1 ELSE nextKey
    /\ ops' = ops \ {o}
    /\ UNCHANGED <<walletAddress, net, sendCount, emitted, setupVars>>

\* handleIncomingMessage, case "chat", for a frame without ciphertext: shown as is
HandlePlainChat(c, f) ==
    /\ f \in net /\ f.to = c /\ f.type = "chat"
    /\ "ciphertext" \notin DOMAIN f.data
    /\ toLowerCase(f.sender) # toLowerCase(walletAddress[c])
    /\ net' = net \ {f}
    /\ UNCHANGED <<walletAddress, store, ops, nextKey, sendCount, messagingVars, setupVars>>

\* a chat handler that keeps a group message whose sender key is missing
HandleGroupChatStart_Buffered(c, f) ==
    /\ f \in net /\ f.to = c /\ f.type = "chat"
    /\ "ciphertext" \in DOMAIN f.data
    /\ PendingOf(c) = {}
    /\ toLowerCase(f.sender) # toLowerCase(walletAddress[c])
    /\ store[c].encryptionMode = "group"
    /\ net' = IF toLowerCase(f.data.senderAddress) \in DOMAIN store[c].peerSenderKeys
              THEN net \ {f} ELSE net
    /\ LET senderAddress == toLowerCase(f.data.senderAddress)
       IN  IF senderAddress \in DOMAIN store[c].peerSenderKeys
           THEN /\ ops' = ops \cup {[client |-> c, kind |-> "decryptGroup", mid |-> f.mid,
                                     snap |-> store[c].peerSenderKeys[senderAddress],
                                     frame |-> f]}
                /\ UNCHANGED results
           ELSE /\ results' = results \cup
                       {[mid |-> f.mid, to |-> c, plaintext |-> NULL,
                         intact |-> f.data.ciphertext.intact, late |-> FALSE, ahead |-> 0]}
                /\ UNCHANGED ops
    /\ UNCHANGED <<walletAddress, store, nextKey, sendCount, emitted, lastRatchet, setupVars>>

\* handleIncomingMessage, case "chat", in a group room, up to the await inside
\* decryptIncoming: get() reads peerSenderKeys; without a key for the sender
\* decryptIncoming returns null
HandleGroupChatStart(c, f) ==
    /\ f \in net /\ f.to = c /\ f.type = "chat"
    /\ "ciphertext" \in DOMAIN f.data
    /\ PendingOf(c) = {}
    /\ toLowerCase(f.sender) # toLowerCase(walletAddress[c])
    /\ store[c].encryptionMode = "group"
    /\ net' = net \ {f}
    /\ LET senderAddress == toLowerCase(f.data.senderAddress)
       IN  IF senderAddress \in DOMAIN store[c].peerSenderKeys
           THEN /\ ops' = ops \cup {[client |-> c, kind |-> "decryptGroup", mid |-> f.mid,
                                     snap |-> store[c].peerSenderKeys[senderAddress],
                                     frame |-> f]}
                /\ UNCHANGED results
           ELSE /\ results' = results \cup
                       {[mid |-> f.mid, to |-> c, plaintext |-> NULL,
                         intact |-> f.data.ciphertext.intact, late |-> FALSE, ahead |-> 0]}
                /\ UNCHANGED ops
    /\ UNCHANGED <<walletAddress, store, nextKey, sendCount, emitted, lastRatchet, setupVars>>

\* decryptIncoming in a group room after the await: the functional set() merges the
\* next sender state into the current peerSenderKeys; or catch and return null
DecryptIncomingGroupDone(o) ==
    /\ o \in ops /\ o.kind = "decryptGroup"
    /\ LET c == o.client
           senderAddress == toLowerCase(o.frame.data.senderAddress)
           r == decryptWithSenderKey(o.snap, o.frame.data)
       IN  /\ store' = IF r.ok
                       THEN [store EXCEPT ![c].peerSenderKeys =
                                MapSet(@, senderAddress, r.nextState)]
                       ELSE store
           /\ results' = results \cup
                  {[mid |-> o.mid, to |-> c, plaintext |-> r.plaintext,
                    intact |-> o.frame.data.ciphertext.intact, late |-> FALSE,
                    ahead |-> Ahead(o)]}
    /\ ops' = ops \ {o}
    /\ UNCHANGED <<walletAddress, net, nextKey, sendCount, emitted, lastRatchet, setupVars>>

\* ----------------------------------------------------- a direct session
\* Client 1 (lower address) has initiated and completed X3DH, client 2 has
\* responded: the store states are those written by respondToDirectSession
\* and completeDirectSession.
Address1 == <<48, 120, 65>>
Address2 == <<48, 120, 98>>

IdentityOf(c) == [publicKey |-> exportPublicKey(c), privateKey |-> c]

SessionInit1 == createX3DHInitMessage(IdentityOf(1), Address1, 3)
SessionResp2 == respondToX3DH(SessionInit1.initMessage, IdentityOf(2), Address2, 4)

SessionStore ==
    [c \in Clients |->
        LET base == [INITIAL_STATE EXCEPT !.encryptionKeyPair = IdentityOf(c),
                                          !.encryptionStatus = "handshaking",
                                          !.encryptionMode = "direct",
                                          !.peerPublicKeys =
                                              [a \in {toLowerCase(IF c = 1 THEN Address2 ELSE Address1)}
                                                  |-> IdentityOf(Peer(c)).publicKey]]
        IN  IF c = 1
            THEN completeDirectSessionState(base, SessionResp2.responseMessage, IdentityOf(1),
                                            SessionInit1.ephemeralKeyPair, 6)
            ELSE respondToDirectSessionState(base, SessionInit1.initMessage, IdentityOf(2),
                                             Address2, 4, 5)]

Init ==
    /\ walletAddress = [c \in Clients |-> IF c = 1 THEN Address1 ELSE Address2]
    /\ store = SessionStore
    /\ ops = {}
    /\ net = {}
    /\ nextKey = 7
    /\ sendCount = [c \in Clients |-> 0]
    /\ emitted = {}
    /\ results = {}
    /\ lastRatchet = [c \in Clients |-> NoRatchet]
    /\ connectionStatus = [c \in Clients |-> "connected"]
    /\ handshakedPeers = [c \in Clients |-> DOMAIN SessionStore[c].peerPublicKeys]
    /\ hasBroadcastedJoin = [c \in Clients |-> TRUE]
    /\ x3dhLog = {}
    /\ transfers = [c \in Clients |-> <<>>]
    /\ webSocket = WS_INITIAL_STATE

\* every interleaving of up to MaxPending store actions per client
Next ==
    \/ \E c \in Clients :
          SendChatStart(c, IF c = 1 THEN MaxSendInitiator ELSE MaxSendResponder, MaxPending)
    \/ \E o \in ops : EncryptOutgoingDone(o)
    \/ \E c \in Clients : \E f \in net : \E alter \in BOOLEAN :
          HandleChatStart(c, f, alter, MaxPending)
    \/ \E o \in ops : DecryptIncomingDone(o)
    \/ \E c \in Clients : \E f \in net : HandlePlainChat(c, f)

Spec == Init /\ [][Next]_vars

\* the same session when each client awaits one store action before it calls the next
NextSequential ==
    \/ \E c \in Clients :
          SendChatStart(c, IF c = 1 THEN SeqSendInitiator ELSE SeqSendResponder, 1)
    \/ \E o \in ops : EncryptOutgoingDone(o)
    \/ \E c \in Clients : \E f \in net : \E alter \in BOOLEAN :
          HandleChatStart(c, f, alter, 1)
    \/ \E o \in ops : DecryptIncomingDone(o)
    \/ \E c \in Clients : \E f \in net : HandlePlainChat(c, f)

SpecSequential == Init /\ [][NextSequential]_vars

\* ------------------------------------------- headers changed in transit
\* the frames a relay can make of a chat frame by changing one header field of the
\* encrypted message while it leaves ciphertext and iv as they are
AddressOther == <<48, 120, 99>>

HeaderAlterations(f) ==
    IF f.type = "chat" /\ "ciphertext" \in DOMAIN f.data
    THEN {[f EXCEPT !.data.senderAddress = AddressOther],
          [f EXCEPT !.data.chainIndex = @ + 1],
          [f EXCEPT !.data.senderDhPublicKey = exportPublicKey(0)]}
    ELSE {}

\* socket.onmessage -> handleIncomingMessage, case "chat", for a frame g the relay
\* has made of f, up to the await inside decryptIncoming
HandleChatHeaderAltered(c, f, g) ==
    /\ f \in net /\ f.to = c /\ f.type = "chat"
    /\ "ciphertext" \in DOMAIN f.data
    /\ g \in HeaderAlterations(f)
    /\ PendingOf(c) = {}
    /\ toLowerCase(g.sender) # toLowerCase(walletAddress[c])
    /\ store[c].encryptionMode = "direct"
    /\ store[c].doubleRatchetState # NULL
    /\ net' = net \ {f}
    /\ ops' = ops \cup {[client |-> c, kind |-> "decrypt", mid |-> g.mid,
                         snap |-> store[c].doubleRatchetState, frame |-> g]}
    /\ UNCHANGED <<walletAddress, store, nextKey, sendCount, emitted, results, lastRatchet, setupVars>>

NextHeader ==
    \/ \E c \in Clients :
          SendChatStart(c, IF c = 1 THEN HdrSendInitiator ELSE HdrSendResponder, 1)
    \/ \E o \in ops : EncryptOutgoingDone(o)
    \/ \E c \in Clients : \E f \in net : HandleChatStart(c, f, FALSE, 1)
    \/ \E c \in Clients : \E f \in net : \E g \in HeaderAlterations(f) :
          HandleChatHeaderAltered(c, f, g)
    \/ \E o \in ops : DecryptIncomingDone(o)
    \/ \E c \in Clients : \E f \in net : HandlePlainChat(c, f)

SpecHeader == Init /\ [][NextHeader]_vars

\* --------------------------------------------------- a long sending chain
\* Client 1 has sent SkipSent messages on one chain, direct or group, and the
\* relay still holds those with the indices below for client 2.
SkipIndices == {i \in {0, 1, MAX_SKIP, MAX_SKIP + 1, MAX_SKIP + 2} : i < SkipSent}

\* the Double Ratchet state after n successive encryptOutgoing calls: each call
\* replaces sendingChainKey by ratchetStep's nextChainKey and adds 1 to the index
DirectAfter(state, n) ==
    [state EXCEPT !.sendingChainKey = ratchetN(@, n),
                  !.sendingChainIndex = @ + n]

\* the sender key state after n successive encryptOutgoing calls
GroupAfter(state, n) ==
    [state EXCEPT !.chainKey = ratchetN(@, n),
                  !.chainIndex = @ + n,
                  !.skippedMessageKeys = <<>>]

ChatFrame(i, data) ==
    [to |-> 2, type |-> "chat", mid |-> <<1, i>>, sender |-> Address1, data |-> data]

\* a group room after initializeGroupSenderKey and handleReceivedSenderKey on both sides
GroupStore ==
    [c \in Clients |->
        LET me == IF c = 1 THEN Address1 ELSE Address2
            peer == IF c = 1 THEN Address2 ELSE Address1
            base == [INITIAL_STATE EXCEPT !.encryptionKeyPair = IdentityOf(c),
                                          !.encryptionMode = "group",
                                          !.peerPublicKeys =
                                              [a \in {toLowerCase(peer)} |->
                                                  IdentityOf(Peer(c)).publicKey],
                                          !.mySenderKeyState = createSenderKeyState(me, 6 + c)]
        IN  handleReceivedSenderKeyState(base, peer,
                createSenderKeyState(peer, 6 + Peer(c)).chainKey)]

InitSkip ==
    /\ walletAddress = [c \in Clients |-> IF c = 1 THEN Address1 ELSE Address2]
    /\ \E mode \in {"direct", "group"} :
          IF mode = "direct"
          THEN /\ store = [SessionStore EXCEPT
                              ![1].doubleRatchetState = DirectAfter(@, SkipSent)]
               /\ net = {ChatFrame(i,
                             encryptWithDoubleRatchet(
                                 DirectAfter(SessionStore[1].doubleRatchetState, i),
                                 <<1, i>>, Address1, <<1, i>>).message) : i \in SkipIndices}
          ELSE /\ store = [GroupStore EXCEPT
                              ![1].mySenderKeyState = GroupAfter(@, SkipSent)]
               /\ net = {ChatFrame(i,
                             encryptWithSenderKey(
                                 GroupAfter(GroupStore[1].mySenderKeyState, i),
                                 <<1, i>>, <<1, i>>).encrypted) : i \in SkipIndices}
    /\ ops = {}
    /\ nextKey = 9
    /\ sendCount = [c \in Clients |-> IF c = 1 THEN SkipSent ELSE 0]
    /\ emitted = {}
    /\ results = {}
    /\ lastRatchet = [c \in Clients |-> NoRatchet]
    /\ connectionStatus = [c \in Clients |-> "connected"]
    /\ handshakedPeers = [c \in Clients |-> {toLowerCase(walletAddress[Peer(c)])}]
    /\ hasBroadcastedJoin = [c \in Clients |-> TRUE]
    /\ x3dhLog = {}
    /\ transfers = [c \in Clients |-> <<>>]
    /\ webSocket = WS_INITIAL_STATE

NextSkip ==
    \/ \E c \in Clients : \E f \in net : HandleChatStart(c, f, FALSE, 1)
    \/ \E o \in ops : DecryptIncomingDone(o)
    \/ \E c \in Clients : \E f \in net : HandleGroupChatStart(c, f)
    \/ \E o \in ops : DecryptIncomingGroupDone(o)

SpecSkip == InitSkip /\ [][NextSkip]_vars

\* ------------------------------------------------------ repeated delivery
\* The relay hands a chat frame to the socket a second time: onmessage runs
\* handleIncomingMessage once per delivery, and the second delivery arrives
\* before the first has been handled.  The field copy tells the two deliveries
\* apart; no handler reads it.
Redeliver(f) ==
    /\ f \in net /\ f.type = "chat"
    /\ "ciphertext" \in DOMAIN f.data
    /\ "copy" \notin DOMAIN f
    /\ \A o \in ops : o.mid # f.mid \/ o.kind # "decrypt"
    /\ \A r \in results : r.mid # f.mid
    /\ net' = net \cup {[x \in DOMAIN f \cup {"copy"} |-> IF x = "copy" THEN TRUE ELSE f[x]]}
    /\ UNCHANGED <<walletAddress, store, ops, nextKey, sendCount, messagingVars, setupVars>>

NextDuplicate ==
    \/ \E c \in Clients :
          SendChatStart(c, IF c = 1 THEN DupSendInitiator ELSE DupSendResponder, MaxPending)
    \/ \E o \in ops : EncryptOutgoingDone(o)
    \/ \E f \in net : Redeliver(f)
    \/ \E c \in Clients : \E f \in net : HandleChatStart(c, f, FALSE, MaxPending)
    \/ \E o \in ops : DecryptIncomingDone(o)
    \/ \E c \in Clients : \E f \in net : HandlePlainChat(c, f)

SpecDuplicate == Init /\ [][NextDuplicate]_vars

\* --------------------------------------------- skipped keys accumulating
\* A group receiver that has decrypted SkipRounds messages, each one MAX_SKIP
\* ahead of the chain, and has kept the keys of the messages it skipped; the
\* relay still holds some of the skipped messages and the next ones.

\* chain index of the message decrypted in round j (rounds count from 0)
GapIndex(j) == (MAX_SKIP + 1) * j + MAX_SKIP

\* the sender key state after decryptWithSenderKey on the messages
\* GapIndex(0), ..., GapIndex(rounds - 1), in that order: every call takes the
\* ratchetToIndex branch, merges the MAX_SKIP keys it skipped into
\* skippedMessageKeys and sets chainIndex to the message's index + 1
ReceiverAfterGaps(state, rounds) ==
    [state EXCEPT !.chainKey = ratchetN(@, (MAX_SKIP + 1) * rounds),
                  !.chainIndex = (MAX_SKIP + 1) * rounds,
                  !.skippedMessageKeys =
                      [i \in {i \in 0 .. ((MAX_SKIP + 1) * rounds - 1) :
                                 i % (MAX_SKIP + 1) # MAX_SKIP} |->
                          ratchetStep(ratchetN(state.chainKey, i)).messageKey]]

GapSent == GapIndex(SkipRounds) + 2

GapIndices == {0, 1, GapIndex(0), GapIndex(SkipRounds) - MAX_SKIP, GapIndex(SkipRounds),
               GapIndex(SkipRounds) + 1}

InitGaps ==
    /\ walletAddress = [c \in Clients |-> IF c = 1 THEN Address1 ELSE Address2]
    /\ store = [GroupStore EXCEPT
                    ![1].mySenderKeyState = GroupAfter(@, GapSent),
                    ![2].peerSenderKeys[toLowerCase(Address1)] =
                        ReceiverAfterGaps(@, SkipRounds)]
    /\ net = {ChatFrame(i, encryptWithSenderKey(GroupAfter(GroupStore[1].mySenderKeyState, i),
                                               <<1, i>>, <<1, i>>).encrypted) :
                 i \in GapIndices}
    /\ ops = {}
    /\ nextKey = 9
    /\ sendCount = [c \in Clients |-> IF c = 1 THEN GapSent ELSE 0]
    /\ emitted = {}
    /\ results = {}
    /\ lastRatchet = [c \in Clients |-> NoRatchet]
    /\ connectionStatus = [c \in Clients |-> "connected"]
    /\ handshakedPeers = [c \in Clients |-> {toLowerCase(walletAddress[Peer(c)])}]
    /\ hasBroadcastedJoin = [c \in Clients |-> TRUE]
    /\ x3dhLog = {}
    /\ transfers = [c \in Clients |-> <<>>]
    /\ webSocket = WS_INITIAL_STATE

NextGaps ==
    \/ \E c \in Clients : \E f \in net : HandleGroupChatStart(c, f)
    \/ \E o \in ops : DecryptIncomingGroupDone(o)

SpecGaps == InitGaps /\ [][NextGaps]_vars

\* ------------------------------------------------------------ room join
\* Two clients enter a direct room: key derivation, WebSocket connection,
\* presence frames carrying the public keys, and the X3DH handshake.

\* wallet addresses "0xa" and "0xB" as code units: "B" < "a" as written, and
\* "a" < "b" in lowercase
AddressPool == { <<48, 120, 97>>, <<48, 120, 66>> }

\* useChatConnection: keysReady
keysReady(c) == store[c].encryptionStatus \notin {"idle", "deriving"}

\* useWebSocketStore.sendMessage(action "broadcastToChannel"): dropped unless the
\* socket is connected; the relay hands the frame to every client of the channel
Broadcast(c, type, data) ==
    IF connectionStatus[c] = "connected"
    THEN {[to |-> d, type |-> type, mid |-> <<c, sendCount[c]>>,
           sender |-> walletAddress[c], data |-> data] :
              d \in {d \in Clients : connectionStatus[d] = "connected"}}
    ELSE {}

\* addPeerPublicKey
addPeerPublicKey(st, address, publicKey) ==
    [st EXCEPT !.peerPublicKeys = MapSet(st.peerPublicKeys, toLowerCase(address), publicKey)]

PublicKeyOf(st) == IF st.encryptionKeyPair = NULL THEN NULL ELSE st.encryptionKeyPair.publicKey

\* deriveKeyPair up to its first await: set({encryptionStatus: "deriving"})
DeriveKeyPairStart(c) ==
    /\ store[c].encryptionStatus = "idle"
    /\ store' = [store EXCEPT ![c].encryptionStatus = "deriving"]
    /\ ops' = ops \cup {[client |-> c, kind |-> "derive", mid |-> NULL, snap |-> NULL,
                         frame |-> NULL]}
    /\ UNCHANGED <<walletAddress, net, nextKey, sendCount, messagingVars, setupVars>>

\* deriveKeyPair after the await: the key pair and "handshaking", or the catch branch
DeriveKeyPairDone(o, ok) ==
    /\ o \in ops /\ o.kind = "derive"
    /\ store' = IF ok
                THEN [store EXCEPT ![o.client].encryptionKeyPair = generateEphemeralKeyPair(nextKey),
                                   ![o.client].encryptionStatus = "handshaking"]
                ELSE [store EXCEPT ![o.client].encryptionStatus = "error"]
    /\ nextKey' = IF ok THEN nextKey + 1 ELSE nextKey
    /\ ops' = ops \ {o}
    /\ UNCHANGED <<walletAddress, net, sendCount, messagingVars, setupVars>>

\* useChatConnection step 2 -> useWebSocketStore.connect
Connect(c) ==
    /\ keysReady(c)
    /\ connectionStatus[c] = "disconnected"
    /\ connectionStatus' = [connectionStatus EXCEPT ![c] = "connecting"]
    /\ UNCHANGED <<walletAddress, transfers, webSocket, store, ops, net, nextKey, sendCount, messagingVars,
                   handshakedPeers, hasBroadcastedJoin, x3dhLog>>

\* socket.onopen
SocketOpen(c) ==
    /\ connectionStatus[c] = "connecting"
    /\ connectionStatus' = [connectionStatus EXCEPT ![c] = "connected"]
    /\ UNCHANGED <<walletAddress, transfers, webSocket, store, ops, net, nextKey, sendCount, messagingVars,
                   handshakedPeers, hasBroadcastedJoin, x3dhLog>>

\* usePresence: announce self when connected
AnnounceJoin(c) ==
    /\ connectionStatus[c] = "connected"
    /\ ~hasBroadcastedJoin[c]
    /\ hasBroadcastedJoin' = [hasBroadcastedJoin EXCEPT ![c] = TRUE]
    /\ net' = net \cup Broadcast(c, "user_joined",
                  [address |-> walletAddress[c], publicKey |-> PublicKeyOf(store[c])])
    /\ sendCount' = [sendCount EXCEPT ![c] = @ + 1]
    /\ UNCHANGED <<walletAddress, transfers, webSocket, store, ops, nextKey, messagingVars, connectionStatus,
                   handshakedPeers, x3dhLog>>

\* handleIncomingMessage, case "user_joined": store the key, answer with i_am_here
HandleUserJoined(c, f) ==
    /\ f \in net /\ f.to = c /\ f.type = "user_joined"
    /\ store' = IF f.data.publicKey # NULL
                THEN [store EXCEPT ![c] = addPeerPublicKey(@, f.data.address, f.data.publicKey)]
                ELSE store
    /\ LET reply == toLowerCase(f.data.address) # toLowerCase(walletAddress[c])
       IN  /\ net' = (net \ {f}) \cup
                  (IF reply
                   THEN Broadcast(c, "i_am_here",
                            [address |-> walletAddress[c], publicKey |-> PublicKeyOf(store[c])])
                   ELSE {})
           /\ sendCount' = IF reply THEN [sendCount EXCEPT ![c] = @ + 1] ELSE sendCount
    /\ UNCHANGED <<walletAddress, ops, nextKey, messagingVars, setupVars>>

\* handleIncomingMessage, case "i_am_here"
HandleIAmHere(c, f) ==
    /\ f \in net /\ f.to = c /\ f.type = "i_am_here"
    /\ store' = IF f.data.publicKey # NULL
                THEN [store EXCEPT ![c] = addPeerPublicKey(@, f.data.address, f.data.publicKey)]
                ELSE store
    /\ net' = net \ {f}
    /\ UNCHANGED <<walletAddress, ops, nextKey, sendCount, messagingVars, setupVars>>

\* a tiebreaker that compares the addresses as they are written
initiatesTowards_CaseSensitive(myAddress, peerAddr) ==
    StrLess(myAddress, peerAddr)

\* useEncryptionSetup, direct mode: the tiebreaker on the lowercase addresses
initiatesTowards(myAddress, peerAddr) ==
    StrLess(toLowerCase(myAddress), toLowerCase(peerAddr))

\* the iterations of the for loop over newPeers that run without an await: every
\* peer up to and including the first one towards which this client initiates
RECURSIVE SyncPrefix(_, _)
SyncPrefix(myAddress, todo) ==
    IF todo = <<>> THEN [marked |-> {}, initiate |-> FALSE, rest |-> <<>>]
    ELSE IF initiatesTowards(myAddress, Head(todo))
         THEN [marked |-> {Head(todo)}, initiate |-> TRUE, rest |-> Tail(todo)]
         ELSE LET r == SyncPrefix(myAddress, Tail(todo))
              IN  [marked |-> {Head(todo)} \cup r.marked, initiate |-> r.initiate,
                   rest |-> r.rest]

Orderings(S) == {q \in [1 .. Cardinality(S) -> S] : \A i, j \in DOMAIN q : i # j => q[i] # q[j]}

\* the for loop from a given position: the peers it marks, the store it leaves
\* and, when it suspends inside initiateDirectSession (which has read the key
\* pair and set encryptionMode), the suspended call; at its end the loop marks
\* the room ready when the effect ran with status "handshaking"
LoopResult(c, st, todo, closureStatus) ==
    LET r == SyncPrefix(walletAddress[c], todo)
    IN  [marked |-> r.marked,
         st |-> IF r.initiate
                THEN IF st.encryptionKeyPair # NULL
                     THEN [st EXCEPT !.encryptionMode = "direct"] ELSE st
                ELSE IF closureStatus = "handshaking"
                     THEN [st EXCEPT !.encryptionStatus = "ready"] ELSE st,
         pending |-> IF r.initiate
                     THEN {[client |-> c, kind |-> "initiate", mid |-> NULL,
                            snap |-> st.encryptionKeyPair,
                            frame |-> [rest |-> r.rest, status |-> closureStatus]]}
                     ELSE {}]

NewPeers(c) == {a \in DOMAIN store[c].peerPublicKeys :
                   a \notin handshakedPeers[c] /\ a # toLowerCase(walletAddress[c])}

\* useEncryptionSetup phase 2, up to the first await of its async loop
SetupEffect(c) ==
    /\ connectionStatus[c] = "connected"
    /\ store[c].encryptionStatus \in {"handshaking", "ready"}
    /\ store[c].encryptionKeyPair # NULL
    /\ NewPeers(c) # {}
    /\ store[c].encryptionMode \in {NULL, "direct"}
    /\ \E todo \in Orderings(NewPeers(c)) :
          LET r == LoopResult(c, store[c], todo, store[c].encryptionStatus)
          IN  /\ handshakedPeers' = [handshakedPeers EXCEPT ![c] = @ \cup r.marked]
              /\ store' = [store EXCEPT ![c] = r.st]
              /\ ops' = ops \cup r.pending
    /\ UNCHANGED <<walletAddress, transfers, webSocket, net, nextKey, sendCount, messagingVars, connectionStatus,
                   hasBroadcastedJoin, x3dhLog>>

\* initiateDirectSession after its await: set({pendingX3DHEphemeralKeyPair}); then
\* the loop sends x3dh_init and goes on to its next await or to its end
InitiateDone(o) ==
    /\ o \in ops /\ o.kind = "initiate"
    /\ LET c == o.client
           x == createX3DHInitMessage(o.snap, walletAddress[c], nextKey)
           st1 == IF o.snap = NULL THEN store[c]
                  ELSE [store[c] EXCEPT !.pendingX3DHEphemeralKeyPair = x.ephemeralKeyPair]
           frames == IF o.snap = NULL THEN {} ELSE Broadcast(c, "x3dh_init", x.initMessage)
           r == LoopResult(c, st1, o.frame.rest, o.frame.status)
       IN  /\ store' = [store EXCEPT ![c] = r.st]
           /\ handshakedPeers' = [handshakedPeers EXCEPT ![c] = @ \cup r.marked]
           /\ ops' = (ops \ {o}) \cup r.pending
           /\ net' = net \cup frames
           /\ nextKey' = IF o.snap = NULL THEN nextKey ELSE nextKey + 1
           /\ sendCount' = IF frames = {} THEN sendCount ELSE [sendCount EXCEPT ![c] = @ + 1]
           /\ x3dhLog' = IF frames = {} THEN x3dhLog
                         ELSE x3dhLog \cup {[kind |-> "init", by |-> c,
                                             mid |-> <<c, sendCount[c]>>, rootKey |-> NULL]}
    /\ UNCHANGED <<walletAddress, transfers, webSocket, messagingVars, connectionStatus, hasBroadcastedJoin>>

\* a fallback timer that is only armed once a peer key is known
FallbackTimer_OnlyWithPeers(c) ==
    /\ connectionStatus[c] = "connected"
    /\ store[c].encryptionStatus = "handshaking"
    /\ NewPeers(c) # {}
    /\ store' = [store EXCEPT ![c].encryptionStatus = "ready"]
    /\ UNCHANGED <<walletAddress, ops, net, nextKey, sendCount, messagingVars, setupVars>>

\* the 200 ms fallback timer of useEncryptionSetup
FallbackTimer(c) ==
    /\ connectionStatus[c] = "connected"
    /\ store[c].encryptionStatus = "handshaking"
    /\ store' = [store EXCEPT ![c].encryptionStatus = "ready"]
    /\ UNCHANGED <<walletAddress, ops, net, nextKey, sendCount, messagingVars, setupVars>>

\* handleIncomingMessage, case "x3dh_init", up to the await inside
\* respondToDirectSession: get() reads the key pair, set({encryptionMode})
HandleX3dhInit(c, f) ==
    /\ f \in net /\ f.to = c /\ f.type = "x3dh_init"
    /\ net' = net \ {f}
    /\ IF store[c].encryptionKeyPair = NULL
       THEN UNCHANGED <<store, ops>>
       ELSE /\ store' = [store EXCEPT ![c].encryptionMode = "direct"]
            /\ ops' = ops \cup {[client |-> c, kind |-> "respond", mid |-> f.mid,
                                 snap |-> store[c].encryptionKeyPair, frame |-> f]}
    /\ UNCHANGED <<walletAddress, nextKey, sendCount, messagingVars, setupVars>>

\* respondToDirectSession after the await: set({doubleRatchetState, "ready"}); then
\* the handler broadcasts x3dh_response
RespondDone(o) ==
    /\ o \in ops /\ o.kind = "respond"
    /\ LET c == o.client
           r == respondToX3DH(o.frame.data, o.snap, walletAddress[c], nextKey)
       IN  /\ store' = [store EXCEPT ![c] =
                  respondToDirectSessionState(@, o.frame.data, o.snap, walletAddress[c],
                                              nextKey, nextKey + 1)]
           /\ net' = net \cup Broadcast(c, "x3dh_response", r.responseMessage)
           /\ x3dhLog' = x3dhLog \cup {[kind |-> "respond", by |-> c,
                                        mid |-> <<c, sendCount[c]>>, rootKey |-> r.rootKey]}
    /\ nextKey' = nextKey + 2
    /\ sendCount' = [sendCount EXCEPT ![o.client] = @ + 1]
    /\ ops' = ops \ {o}
    /\ UNCHANGED <<walletAddress, transfers, webSocket, messagingVars, connectionStatus, handshakedPeers,
                   hasBroadcastedJoin>>

\* a completeDirectSession that does not look at pendingX3DHEphemeralKeyPair
HandleX3dhResponse_NoPendingCheck(c, f) ==
    /\ f \in net /\ f.to = c /\ f.type = "x3dh_response"
    /\ net' = net \ {f}
    /\ ops' = IF store[c].encryptionKeyPair = NULL
              THEN ops
              ELSE ops \cup {[client |-> c, kind |-> "complete", mid |-> f.mid,
                              snap |-> [identity |-> store[c].encryptionKeyPair,
                                        pending |-> store[c].pendingX3DHEphemeralKeyPair],
                              frame |-> f]}
    /\ UNCHANGED <<walletAddress, store, nextKey, sendCount, messagingVars, setupVars>>

\* handleIncomingMessage, case "x3dh_response", up to the await inside
\* completeDirectSession: get() reads the key pair and the pending ephemeral
HandleX3dhResponse(c, f) ==
    /\ f \in net /\ f.to = c /\ f.type = "x3dh_response"
    /\ net' = net \ {f}
    /\ ops' = IF store[c].encryptionKeyPair = NULL \/ store[c].pendingX3DHEphemeralKeyPair = NULL
              THEN ops
              ELSE ops \cup {[client |-> c, kind |-> "complete", mid |-> f.mid,
                              snap |-> [identity |-> store[c].encryptionKeyPair,
                                        pending |-> store[c].pendingX3DHEphemeralKeyPair],
                              frame |-> f]}
    /\ UNCHANGED <<walletAddress, store, nextKey, sendCount, messagingVars, setupVars>>

\* completeDirectSession after the await
CompleteDone(o) ==
    /\ o \in ops /\ o.kind = "complete"
    /\ store' = [store EXCEPT ![o.client] =
           completeDirectSessionState(@, o.frame.data, o.snap.identity, o.snap.pending, nextKey)]
    /\ x3dhLog' = x3dhLog \cup
           {[kind |-> "complete", by |-> o.client, mid |-> o.mid,
             rootKey |-> completeX3DH(o.frame.data, o.snap.identity, o.snap.pending).rootKey]}
    /\ nextKey' = nextKey + 1
    /\ ops' = ops \ {o}
    /\ UNCHANGED <<walletAddress, transfers, webSocket, net, sendCount, messagingVars, connectionStatus,
                   handshakedPeers, hasBroadcastedJoin>>

InitHandshake ==
    /\ walletAddress \in {w \in [Clients -> AddressPool] : toLowerCase(w[1]) # toLowerCase(w[2])}
    /\ store = [c \in Clients |-> INITIAL_STATE]
    /\ ops = {}
    /\ net = {}
    /\ nextKey = 1
    /\ sendCount = [c \in Clients |-> 0]
    /\ emitted = {}
    /\ results = {}
    /\ lastRatchet = [c \in Clients |-> NoRatchet]
    /\ connectionStatus = [c \in Clients |-> "disconnected"]
    /\ handshakedPeers = [c \in Clients |-> {}]
    /\ hasBroadcastedJoin = [c \in Clients |-> FALSE]
    /\ x3dhLog = {}
    /\ transfers = [c \in Clients |-> <<>>]
    /\ webSocket = WS_INITIAL_STATE

NextHandshake ==
    \/ \E c \in Clients : DeriveKeyPairStart(c)
    \/ \E o \in ops : \E ok \in BOOLEAN : DeriveKeyPairDone(o, ok)
    \/ \E c \in Clients : Connect(c)
    \/ \E c \in Clients : SocketOpen(c)
    \/ \E c \in Clients : AnnounceJoin(c)
    \/ \E c \in Clients : \E f \in net : HandleUserJoined(c, f)
    \/ \E c \in Clients : \E f \in net : HandleIAmHere(c, f)
    \/ \E c \in Clients : SetupEffect(c)
    \/ \E o \in ops : InitiateDone(o)
    \/ \E c \in Clients : FallbackTimer(c)
    \/ \E c \in Clients : \E f \in net : HandleX3dhInit(c, f)
    \/ \E o \in ops : RespondDone(o)
    \/ \E c \in Clients : \E f \in net : HandleX3dhResponse(c, f)
    \/ \E o \in ops : CompleteDone(o)

SpecHandshake == InitHandshake /\ [][NextHandshake]_vars


\* ---------------------------------------------------------- leaving a room
\* The room of SpecHandshake, in which a client may also leave: the store is
\* reset while operations of that client are still suspended at their await.

\* reset() calls made so far
Resets == {e \in x3dhLog : e.kind = "reset"}

\* the hooks of a client run while its ChatRoom is mounted; a client that has
\* left does not come back
InRoom(c) == ~\E e \in Resets : e.by = c

\* useChatConnection.exitRoom: broadcast user_left when connected, then schedule
\* the teardown
ExitRoom(c) ==
    /\ InRoom(c)
    /\ store[c].encryptionStatus # "idle"
    /\ ~\E o \in ops : o.client = c /\ o.kind = "exit"
    /\ net' = net \cup Broadcast(c, "user_left", [address |-> walletAddress[c]])
    /\ sendCount' = IF connectionStatus[c] = "connected"
                    THEN [sendCount EXCEPT ![c] = @ + 1] ELSE sendCount
    /\ ops' = ops \cup {[client |-> c, kind |-> "exit", mid |-> NULL, snap |-> NULL,
                         frame |-> NULL]}
    /\ UNCHANGED <<walletAddress, store, nextKey, messagingVars, setupVars>>

\* the teardown: disconnect() closes the socket, so that frames not yet handed
\* to onmessage are lost; reset() is set(INITIAL_STATE); the refs of the
\* unmounted hooks are gone
Teardown(o) ==
    /\ o \in ops /\ o.kind = "exit"
    /\ LET c == o.client
       IN  /\ connectionStatus' = [connectionStatus EXCEPT ![c] = "disconnected"]
           /\ net' = {f \in net : f.to # c}
           /\ store' = [store EXCEPT ![c] = INITIAL_STATE]
           /\ handshakedPeers' = [handshakedPeers EXCEPT ![c] = {}]
           /\ hasBroadcastedJoin' = [hasBroadcastedJoin EXCEPT ![c] = FALSE]
           /\ x3dhLog' = x3dhLog \cup {[kind |-> "reset", by |-> c,
                                        mid |-> <<c, sendCount[c]>>, rootKey |-> NULL]}
    /\ ops' = ops \ {o}
    /\ UNCHANGED <<walletAddress, transfers, webSocket, nextKey, sendCount, messagingVars>>

\* handleIncomingMessage, case "user_left": removeOnlineUser only
HandleUserLeft(c, f) ==
    /\ f \in net /\ f.to = c /\ f.type = "user_left"
    /\ net' = net \ {f}
    /\ UNCHANGED <<walletAddress, store, ops, nextKey, sendCount, messagingVars, setupVars>>

\* client 2 is in the room already: its key pair is derived, its socket is open
\* and it has announced itself to an empty channel; client 1 is about to enter
InitReset ==
    /\ walletAddress \in {w \in [Clients -> AddressPool] : w[1] # w[2]}
    /\ store = [c \in Clients |->
                   IF c = 1 THEN INITIAL_STATE
                   ELSE [INITIAL_STATE EXCEPT !.encryptionKeyPair = generateEphemeralKeyPair(1),
                                              !.encryptionStatus = "handshaking"]]
    /\ ops = {}
    /\ net = {}
    /\ nextKey = 2
    /\ sendCount = [c \in Clients |-> IF c = 1 THEN 0 ELSE 1]
    /\ emitted = {}
    /\ results = {}
    /\ lastRatchet = [c \in Clients |-> NoRatchet]
    /\ connectionStatus = [c \in Clients |-> IF c = 1 THEN "disconnected" ELSE "connected"]
    /\ handshakedPeers = [c \in Clients |-> {}]
    /\ hasBroadcastedJoin = [c \in Clients |-> c = 2]
    /\ x3dhLog = {}
    /\ transfers = [c \in Clients |-> <<>>]
    /\ webSocket = WS_INITIAL_STATE

NextReset ==
    \/ \E c \in Clients : InRoom(c) /\ DeriveKeyPairStart(c)
    \/ \E o \in ops : \E ok \in BOOLEAN : DeriveKeyPairDone(o, ok)
    \/ \E c \in Clients : InRoom(c) /\ Connect(c)
    \/ \E c \in Clients : InRoom(c) /\ SocketOpen(c)
    \/ \E c \in Clients : InRoom(c) /\ AnnounceJoin(c)
    \/ \E c \in Clients : \E f \in net : HandleUserJoined(c, f)
    \/ \E c \in Clients : \E f \in net : HandleIAmHere(c, f)
    \/ \E c \in Clients : InRoom(c) /\ SetupEffect(c)
    \/ \E o \in ops : InitiateDone(o)
    \/ \E c \in Clients : InRoom(c) /\ FallbackTimer(c)
    \/ \E c \in Clients : \E f \in net : HandleX3dhInit(c, f)
    \/ \E o \in ops : RespondDone(o)
    \/ \E c \in Clients : \E f \in net : HandleX3dhResponse(c, f)
    \/ \E o \in ops : CompleteDone(o)
    \/ \E c \in Clients : ExitRoom(c)
    \/ \E o \in ops : Teardown(o)
    \/ \E c \in Clients : \E f \in net : HandleUserLeft(c, f)

SpecReset == InitReset /\ [][NextReset]_vars

\* ------------------------------------------------- re-keying a group room
\* Clients 1 and 2 are in a group room with a third member, AddressOther, whose
\* sender key both hold.  AddressOther leaves and the clients re-key.

\* deriveSharedSecret: ECDH bits through HKDF to an AES-GCM key
deriveSharedSecret(myPrivateKey, theirPublicKeyJwk) ==
    <<"aes", ecdhDeriveBits(myPrivateKey, theirPublicKeyJwk)>>

\* encryptSenderKeyForPeer; k stands for the fresh IV
encryptSenderKeyForPeer(chainKey, myPrivateKey, peerPublicKey, myAddress, k) ==
    LET enc == aesGcmEncrypt(deriveSharedSecret(myPrivateKey, peerPublicKey), chainKey, k)
    IN  [encryptedChainKey |-> enc.ciphertext, iv |-> enc.iv,
         fromAddress |-> myAddress, forPublicKey |-> peerPublicKey]

\* decryptSenderKeyFromPeer; ok = FALSE when it throws
decryptSenderKeyFromPeer(encrypted, myPrivateKey, peerPublicKey) ==
    aesGcmDecrypt(deriveSharedSecret(myPrivateKey, peerPublicKey),
                  encrypted.encryptedChainKey, encrypted.iv)

\* sendChatMessage in a group room up to the await inside encryptOutgoing
SendGroupChatStart(c, maxSend, maxPending) ==
    /\ sendCount[c] < maxSend
    /\ Cardinality(PendingOf(c)) < maxPending
    /\ store[c].encryptionStatus = "ready"
    /\ store[c].encryptionMode = "group"
    /\ store[c].mySenderKeyState # NULL
    /\ ops' = ops \cup {[client |-> c, kind |-> "encryptGroup", mid |-> <<c, sendCount[c]>>,
                         snap |-> store[c].mySenderKeyState, frame |-> NULL]}
    /\ sendCount' = [sendCount EXCEPT ![c] = @ + 1]
    /\ UNCHANGED <<walletAddress, store, net, nextKey, emitted, results, lastRatchet, setupVars>>

\* encryptOutgoing in a group room after the await: set({mySenderKeyState:
\* nextState}); then sendChatMessage broadcasts the encrypted frame
EncryptOutgoingGroupDone(o) ==
    /\ o \in ops /\ o.kind = "encryptGroup"
    /\ LET c == o.client
           r == encryptWithSenderKey(o.snap, o.mid, o.mid)
       IN  /\ store' = [store EXCEPT ![c].mySenderKeyState = r.nextState]
           /\ emitted' = emitted \cup
                  {[mid |-> o.mid, from |-> c, ok |-> TRUE, message |-> r.encrypted,
                    prevLen |-> NoRatchet]}
           /\ net' = net \cup {[to |-> Peer(c), type |-> "chat", mid |-> o.mid,
                                sender |-> walletAddress[c], data |-> r.encrypted]}
    /\ ops' = ops \ {o}
    /\ UNCHANGED <<walletAddress, nextKey, sendCount, results, lastRatchet, setupVars>>

\* rekeyOnMemberLeave calls made so far
Rekeys == {e \in x3dhLog : e.kind = "rekey"}

\* rekeyOnMemberLeave(leftAddress, myAddress) up to its first await: get() reads
\* the key pair, peerPublicKeys and peerSenderKeys and removes the departed member
RekeyStart(c, leftAddress, maxPending) ==
    /\ Cardinality(PendingOf(c)) < maxPending
    /\ ~\E e \in Rekeys : e.by = c
    /\ ~\E o \in ops : o.client = c /\ o.kind = "rekey"
    /\ store[c].encryptionKeyPair # NULL
    /\ ops' = ops \cup
          {[client |-> c, kind |-> "rekey", mid |-> NULL,
            snap |-> [encryptionKeyPair |-> store[c].encryptionKeyPair,
                      nextPeerKeys |-> MapDelete(store[c].peerPublicKeys,
                                                 toLowerCase(leftAddress)),
                      nextPeerSenderKeys |-> MapDelete(store[c].peerSenderKeys,
                                                       toLowerCase(leftAddress))],
            frame |-> NULL]}
    /\ UNCHANGED <<walletAddress, store, net, nextKey, sendCount, messagingVars, setupVars>>

\* the envelopes rekeyOnMemberLeave returns for the new chain key
RekeyEnvelopes(c, snap, chainKey, k) ==
    {encryptSenderKeyForPeer(chainKey, snap.encryptionKeyPair.privateKey,
                             snap.nextPeerKeys[a], walletAddress[c], k) :
         a \in DOMAIN snap.nextPeerKeys}

\* rekeyOnMemberLeave after its awaits: one set() of the three fields; the
\* returned envelopes go out as sender_key frames, as those of
\* initializeGroupSenderKey do
RekeyDone(o) ==
    /\ o \in ops /\ o.kind = "rekey"
    /\ LET c == o.client
           newSenderKey == createSenderKeyState(walletAddress[c], nextKey)
       IN  /\ store' = [store EXCEPT ![c].peerPublicKeys = o.snap.nextPeerKeys,
                                     ![c].peerSenderKeys = o.snap.nextPeerSenderKeys,
                                     ![c].mySenderKeyState = newSenderKey]
           /\ net' = net \cup
                  {[to |-> Peer(c), type |-> "sender_key", mid |-> <<c, sendCount[c]>>,
                    sender |-> walletAddress[c], data |-> e] :
                       e \in RekeyEnvelopes(c, o.snap, newSenderKey.chainKey, nextKey)}
           /\ x3dhLog' = x3dhLog \cup {[kind |-> "rekey", by |-> c,
                                        mid |-> <<c, sendCount[c]>>,
                                        rootKey |-> newSenderKey.chainKey]}
    /\ nextKey' = nextKey + 1
    /\ ops' = ops \ {o}
    /\ UNCHANGED <<walletAddress, transfers, webSocket, sendCount, messagingVars, connectionStatus,
                   handshakedPeers, hasBroadcastedJoin>>

\* handleIncomingMessage, case "sender_key", up to the await inside
\* handleReceivedSenderKey: the sender's public key is looked up, get() reads
\* the key pair; without either nothing is written
HandleSenderKeyStart(c, f, maxPending) ==
    /\ f \in net /\ f.to = c /\ f.type = "sender_key"
    /\ Cardinality(PendingOf(c)) < maxPending
    /\ net' = net \ {f}
    /\ ops' = IF store[c].encryptionKeyPair = NULL
                 \/ toLowerCase(f.sender) \notin DOMAIN store[c].peerPublicKeys
              THEN ops
              ELSE ops \cup {[client |-> c, kind |-> "senderKey", mid |-> f.mid,
                              snap |-> [encryptionKeyPair |-> store[c].encryptionKeyPair,
                                        peerPublicKey |->
                                            store[c].peerPublicKeys[toLowerCase(f.sender)]],
                              frame |-> f]}
    /\ UNCHANGED <<walletAddress, store, nextKey, sendCount, messagingVars, setupVars>>

\* handleReceivedSenderKey after the await: the functional set(), or the throw of
\* decryptSenderKeyFromPeer on an envelope made for another member
HandleSenderKeyDone(o) ==
    /\ o \in ops /\ o.kind = "senderKey"
    /\ LET dec == decryptSenderKeyFromPeer(o.frame.data, o.snap.encryptionKeyPair.privateKey,
                                           o.snap.peerPublicKey)
       IN  store' = IF dec.ok
                    THEN [store EXCEPT ![o.client] =
                             handleReceivedSenderKeyState(@, o.frame.data.fromAddress,
                                                          dec.plaintext)]
                    ELSE store
    /\ ops' = ops \ {o}
    /\ UNCHANGED <<walletAddress, net, nextKey, sendCount, messagingVars, setupVars>>

\* the group room with AddressOther as third member
RekeyStore ==
    [c \in Clients |->
        handleReceivedSenderKeyState(
            [GroupStore[c] EXCEPT !.peerPublicKeys =
                MapSet(@, toLowerCase(AddressOther), IdentityOf(3).publicKey)],
            AddressOther, createSenderKeyState(AddressOther, 6).chainKey)]

InitRekey ==
    /\ walletAddress = [c \in Clients |-> IF c = 1 THEN Address1 ELSE Address2]
    /\ store = RekeyStore
    /\ ops = {}
    /\ net = {}
    /\ nextKey = 9
    /\ sendCount = [c \in Clients |-> 0]
    /\ emitted = {}
    /\ results = {}
    /\ lastRatchet = [c \in Clients |-> NoRatchet]
    /\ connectionStatus = [c \in Clients |-> "connected"]
    /\ handshakedPeers = [c \in Clients |-> DOMAIN store[c].peerPublicKeys]
    /\ hasBroadcastedJoin = [c \in Clients |-> TRUE]
    /\ x3dhLog = {}
    /\ transfers = [c \in Clients |-> <<>>]
    /\ webSocket = WS_INITIAL_STATE

NextRekey ==
    \/ \E c \in Clients : SendGroupChatStart(c, RekeySend, MaxPending)
    \/ \E o \in ops : EncryptOutgoingGroupDone(o)
    \/ \E c \in Clients : RekeyStart(c, AddressOther, MaxPending)
    \/ \E o \in ops : RekeyDone(o)
    \/ \E c \in Clients : \E f \in net : HandleSenderKeyStart(c, f, MaxPending)
    \/ \E o \in ops : HandleSenderKeyDone(o)
    \/ \E c \in Clients : \E f \in net : HandleGroupChatStart(c, f)
    \/ \E o \in ops : DecryptIncomingGroupDone(o)

SpecRekey == InitRekey /\ [][NextRekey]_vars

\* ---------------------------------------------- a member leaves the group
\* The group room above at the moment AddressOther leaves: its user_left frame
\* is on its way to both clients.  Nothing in the program calls
\* rekeyOnMemberLeave, so the operations are those of the chat itself.
UserLeftFrame(c) ==
    [to |-> c, type |-> "user_left", mid |-> <<3, 0>>, sender |-> AddressOther,
     data |-> [address |-> AddressOther]]

InitLeave ==
    /\ walletAddress = [c \in Clients |-> IF c = 1 THEN Address1 ELSE Address2]
    /\ store = RekeyStore
    /\ ops = {}
    /\ net = {UserLeftFrame(c) : c \in Clients}
    /\ nextKey = 9
    /\ sendCount = [c \in Clients |-> 0]
    /\ emitted = {}
    /\ results = {}
    /\ lastRatchet = [c \in Clients |-> NoRatchet]
    /\ connectionStatus = [c \in Clients |-> "connected"]
    /\ handshakedPeers = [c \in Clients |-> DOMAIN store[c].peerPublicKeys]
    /\ hasBroadcastedJoin = [c \in Clients |-> TRUE]
    /\ x3dhLog = {}
    /\ transfers = [c \in Clients |-> <<>>]
    /\ webSocket = WS_INITIAL_STATE

NextLeave ==
    \/ \E c \in Clients : \E f \in net : HandleUserLeft(c, f)
    \/ \E c \in Clients : SendGroupChatStart(c, LeaveSend, MaxPending)
    \/ \E o \in ops : EncryptOutgoingGroupDone(o)
    \/ \E c \in Clients : \E f \in net : HandleGroupChatStart(c, f)
    \/ \E o \in ops : DecryptIncomingGroupDone(o)

SpecLeave == InitLeave /\ [][NextLeave]_vars

\* ---------------------------------------------------------- file transfer
\* One client of the direct session sends a file of TotalChunks chunks; the
\* other receives the frames in any order, chunk decryptions overlapping.

\* prepareImageTransfer / prepareVideoTransfer: the metadata with the exported
\* transfer key k, and the chunks encrypted under that key
PrepareTransfer(id, k) ==
    [meta |-> [transferId |-> id, totalChunks |-> TotalChunks, transferKey |-> <<"tk", k>>],
     encryptedChunks |-> [i \in 0 .. (TotalChunks - 1) |->
                             aesGcmEncrypt(<<"tk", k>>, <<"chunk", i>>, <<id, i>>)]]

\* importTransferKey
importTransferKey(base64) == base64

\* decryptChunk
decryptChunk(key, ciphertext, iv) == aesGcmDecrypt(key, ciphertext, iv)

\* the entry sendFile and handleTransferStart put into transfers; objectUrls
\* counts the blob URLs finalizeTransfer has created for the entry
NewTransfer(meta, status) ==
    [meta |-> meta, chunks |-> <<>>, receivedCount |-> 0, status |-> status,
     transferKey |-> importTransferKey(meta.transferKey), completionSignaled |-> FALSE,
     objectUrls |-> 0]

\* sendFile steps 5 to 7: the chunk frames and the completion signal
TransferFrames(c, mid, prepared) ==
    {[to |-> Peer(c), type |-> "file_transfer_chunk", mid |-> mid, sender |-> walletAddress[c],
      data |-> [transferId |-> prepared.meta.transferId, chunkIndex |-> i,
                ciphertext |-> prepared.encryptedChunks[i].ciphertext,
                iv |-> prepared.encryptedChunks[i].iv]] :
         i \in DOMAIN prepared.encryptedChunks}
    \cup {[to |-> Peer(c), type |-> "file_transfer_complete", mid |-> mid,
           sender |-> walletAddress[c], data |-> [transferId |-> prepared.meta.transferId]]}

\* the file_transfer_start frame: the encrypted payload, or the metadata itself
StartFrame(c, mid, payload) ==
    [to |-> Peer(c), type |-> "file_transfer_start", mid |-> mid, sender |-> walletAddress[c],
     data |-> payload]

\* useChatConnection.sendFile -> useFileTransferStore.sendFile, steps 1 to 3 and,
\* when encryption is ready, up to the await inside encryptOutgoing; otherwise
\* the function is handed no encryptOutgoing and runs to its end
SendFileStart(c, maxFiles) ==
    /\ sendCount[c] < maxFiles
    /\ \A d \in Clients : transfers[d] = <<>>
    /\ PendingOf(c) = {}
    /\ LET id == <<c, sendCount[c]>>
           prepared == PrepareTransfer(id, nextKey)
           encrypts == /\ store[c].encryptionStatus = "ready"
                       /\ store[c].encryptionMode = "direct"
                       /\ store[c].doubleRatchetState # NULL
       IN  IF encrypts
           THEN /\ ops' = ops \cup {[client |-> c, kind |-> "sendFile", mid |-> id,
                                     snap |-> store[c].doubleRatchetState, frame |-> prepared]}
                /\ transfers' = [transfers EXCEPT ![c] =
                                    MapSet(@, id, NewTransfer(prepared.meta, "sending"))]
                /\ UNCHANGED net
           ELSE /\ net' = net \cup {StartFrame(c, id, prepared.meta)}
                                \cup TransferFrames(c, id, prepared)
                /\ transfers' = [transfers EXCEPT ![c] =
                                    MapSet(@, id, NewTransfer(prepared.meta, "complete"))]
                /\ UNCHANGED ops
    /\ nextKey' = nextKey + 1
    /\ sendCount' = [sendCount EXCEPT ![c] = @ + 1]
    /\ UNCHANGED <<walletAddress, webSocket, store, messagingVars, connectionStatus, handshakedPeers,
                   hasBroadcastedJoin, x3dhLog>>

\* sendFile from the return of encryptOutgoing to its end: the metadata goes
\* out encrypted, or in the clear when encryptOutgoing threw; then the chunks
\* and the completion signal
SendFileDone(o) ==
    /\ o \in ops /\ o.kind = "sendFile"
    /\ LET c == o.client
           r == encryptWithDoubleRatchet(o.snap, o.frame.meta, walletAddress[c], o.mid)
       IN  /\ store' = IF r.ok THEN [store EXCEPT ![c].doubleRatchetState = r.nextState]
                       ELSE store
           /\ net' = net \cup {StartFrame(c, o.mid, IF r.ok THEN r.message ELSE o.frame.meta)}
                         \cup TransferFrames(c, o.mid, o.frame)
           /\ transfers' = [transfers EXCEPT ![c] =
                  IF o.mid \in DOMAIN @
                  THEN MapSet(@, o.mid, [@[o.mid] EXCEPT !.status = "complete"]) ELSE @]
    /\ ops' = ops \ {o}
    /\ UNCHANGED <<walletAddress, webSocket, nextKey, sendCount, messagingVars, connectionStatus,
                   handshakedPeers, hasBroadcastedJoin, x3dhLog>>

\* history: a frame of a transfer that the receiver has dropped
Dropped(c, f) ==
    [mid |-> f.mid, to |-> c, plaintext |-> NULL, intact |-> TRUE, late |-> FALSE, ahead |-> 0]

\* a file_transfer_start frame reaches the receiver: an encrypted payload goes
\* through decryptIncoming first; handleTransferStart then records the transfer
HandleTransferStart(c, f) ==
    /\ f \in net /\ f.to = c /\ f.type = "file_transfer_start"
    /\ PendingOf(c) = {}
    /\ net' = net \ {f}
    /\ IF "ciphertext" \in DOMAIN f.data
       THEN LET r == decryptWithDoubleRatchet(store[c].doubleRatchetState, f.data, nextKey)
            IN  /\ store' = IF r.ok THEN [store EXCEPT ![c].doubleRatchetState = r.nextState]
                            ELSE store
                /\ nextKey' = IF r.ok /\ r.ratcheted THEN nextKey + 1 ELSE nextKey
                /\ transfers' = IF r.ok
                                THEN [transfers EXCEPT ![c] =
                                         MapSet(@, r.plaintext.transferId,
                                                NewTransfer(r.plaintext, "receiving"))]
                                ELSE transfers
       ELSE /\ transfers' = [transfers EXCEPT ![c] =
                                MapSet(@, f.data.transferId, NewTransfer(f.data, "receiving"))]
            /\ UNCHANGED <<store, nextKey>>
    /\ UNCHANGED <<walletAddress, webSocket, ops, sendCount, messagingVars, connectionStatus,
                   handshakedPeers, hasBroadcastedJoin, x3dhLog>>

\* handleTransferChunk up to the await of decryptChunk: get() reads the transfer
\* and its key; a chunk of an unknown transfer is dropped
HandleTransferChunkStart(c, f, maxPending) ==
    /\ f \in net /\ f.to = c /\ f.type = "file_transfer_chunk"
    /\ Cardinality(PendingOf(c)) < maxPending
    /\ net' = net \ {f}
    /\ IF f.data.transferId \in DOMAIN transfers[c]
       THEN /\ ops' = ops \cup {[client |-> c, kind |-> "chunk", mid |-> f.mid,
                                 snap |-> transfers[c][f.data.transferId].transferKey,
                                 frame |-> f]}
            /\ UNCHANGED results
       ELSE /\ results' = results \cup {Dropped(c, f)}
            /\ UNCHANGED ops
    /\ UNCHANGED <<walletAddress, store, nextKey, sendCount, emitted, lastRatchet, setupVars>>

\* reassembleChunks returns unless one of the chunks 0 .. totalChunks - 1 is missing
reassembleChunks(chunks, totalChunks) ==
    \A i \in 0 .. (totalChunks - 1) : i \in DOMAIN chunks

\* a finalizeTransfer that reassembles a transfer whatever its status
finalizeTransfer_Unguarded(transfer) ==
    IF reassembleChunks(transfer.chunks, transfer.meta.totalChunks)
    THEN [transfer EXCEPT !.status = "complete", !.objectUrls = @ + 1]
    ELSE [transfer EXCEPT !.status = "error"]

\* finalizeTransfer: nothing for a complete transfer; otherwise the chunks are
\* reassembled into a blob URL, or reassembleChunks throws
finalizeTransfer(transfer) ==
    IF transfer.status = "complete" THEN transfer
    ELSE IF reassembleChunks(transfer.chunks, transfer.meta.totalChunks)
         THEN [transfer EXCEPT !.status = "complete", !.objectUrls = @ + 1]
         ELSE [transfer EXCEPT !.status = "error"]

\* a chunk path that stores the chunk and leaves finalization to the
\* completion signal
TransferAfterChunk_NoFinalize(latest, chunkIndex, decrypted) ==
    LET newChunks == MapSet(latest.chunks, chunkIndex, decrypted)
    IN  [latest EXCEPT !.chunks = newChunks,
                       !.receivedCount = Cardinality(DOMAIN newChunks)]

\* handleTransferChunk after the await: the chunk is added to the transfer as it
\* is now, and the transfer is finalized when the completion was signaled and
\* this was the last missing chunk
TransferAfterChunk(latest, chunkIndex, decrypted) ==
    LET newChunks == MapSet(latest.chunks, chunkIndex, decrypted)
        stored == [latest EXCEPT !.chunks = newChunks,
                                 !.receivedCount = Cardinality(DOMAIN newChunks)]
    IN  IF latest.completionSignaled /\ stored.receivedCount = latest.meta.totalChunks
        THEN finalizeTransfer(stored) ELSE stored

HandleTransferChunkDone(o) ==
    /\ o \in ops /\ o.kind = "chunk"
    /\ LET c == o.client
           id == o.frame.data.transferId
           dec == decryptChunk(o.snap, o.frame.data.ciphertext, o.frame.data.iv)
       IN  transfers' = IF dec.ok /\ id \in DOMAIN transfers[c]
                        THEN [transfers EXCEPT ![c] =
                                 MapSet(@, id, TransferAfterChunk(@[id], o.frame.data.chunkIndex,
                                                                  dec.plaintext))]
                        ELSE transfers
    /\ ops' = ops \ {o}
    /\ UNCHANGED <<walletAddress, webSocket, store, net, nextKey, sendCount, messagingVars,
                   connectionStatus, handshakedPeers, hasBroadcastedJoin, x3dhLog>>

\* handleTransferComplete: mark the completion; finalize when every chunk is
\* already stored
HandleTransferComplete(c, f) ==
    /\ f \in net /\ f.to = c /\ f.type = "file_transfer_complete"
    /\ net' = net \ {f}
    /\ LET id == f.data.transferId
       IN  IF id \in DOMAIN transfers[c]
           THEN LET transfer == transfers[c][id]
                    signaled == [transfer EXCEPT !.completionSignaled = TRUE]
                IN  /\ transfers' = [transfers EXCEPT ![c] =
                           MapSet(@, id,
                                  IF Cardinality(DOMAIN transfer.chunks) = transfer.meta.totalChunks
                                  THEN finalizeTransfer(signaled) ELSE signaled)]
                    /\ UNCHANGED results
           ELSE /\ results' = results \cup {Dropped(c, f)}
                /\ UNCHANGED transfers
    /\ UNCHANGED <<walletAddress, webSocket, store, ops, nextKey, sendCount, emitted, lastRatchet,
                   connectionStatus, handshakedPeers, hasBroadcastedJoin, x3dhLog>>

InitTransfer ==
    /\ walletAddress = [c \in Clients |-> IF c = 1 THEN Address1 ELSE Address2]
    /\ store = SessionStore
    /\ ops = {}
    /\ net = {}
    /\ nextKey = 7
    /\ sendCount = [c \in Clients |-> 0]
    /\ emitted = {}
    /\ results = {}
    /\ lastRatchet = [c \in Clients |-> NoRatchet]
    /\ connectionStatus = [c \in Clients |-> "connected"]
    /\ handshakedPeers = [c \in Clients |-> {toLowerCase(walletAddress[Peer(c)])}]
    /\ hasBroadcastedJoin = [c \in Clients |-> TRUE]
    /\ x3dhLog = {}
    /\ transfers = [c \in Clients |-> <<>>]
    /\ webSocket = WS_INITIAL_STATE

NextTransfer ==
    \/ \E c \in Clients : SendFileStart(c, MaxFiles)
    \/ \E o \in ops : SendFileDone(o)
    \/ \E c \in Clients : \E f \in net : HandleTransferStart(c, f)
    \/ \E c \in Clients : \E f \in net : HandleTransferChunkStart(c, f, MaxChunkPending)
    \/ \E o \in ops : HandleTransferChunkDone(o)
    \/ \E c \in Clients : \E f \in net : HandleTransferComplete(c, f)

SpecTransfer == InitTransfer /\ [][NextTransfer]_vars

\* ------------------------------------------------------- room key derivation
\* Independent calls of deriveRoomKeyPairFromMasterSeed, on any device of any
\* wallet; each call is logged with its inputs and the public key it returned.

\* seedToEcdhKeyPair: the HKDF output of the seed is discarded and the key pair
\* comes from crypto.subtle.generateKey; k is the random scalar it draws
seedToEcdhKeyPair(seed, k) == k

\* deriveRoomKeyPairFromMasterSeed
deriveRoomKeyPairFromMasterSeed(masterSeedHex, channelHash, k) ==
    LET roomSeed == <<"hkdf", masterSeedHex, "livv-e2e-room-key", channelHash>>
        privateKey == seedToEcdhKeyPair(roomSeed, k)
    IN  [publicKey |-> exportPublicKey(privateKey), privateKey |-> privateKey]

Derivations == {e \in x3dhLog : e.kind = "derive"}

DeriveRoomKeyPair(c, masterSeedHex, channelHash, maxDerive) ==
    /\ Cardinality(Derivations) < maxDerive
    /\ x3dhLog' = x3dhLog \cup
          {[kind |-> "derive", by |-> c, mid |-> <<masterSeedHex, channelHash>>,
            rootKey |-> deriveRoomKeyPairFromMasterSeed(masterSeedHex, channelHash,
                                                        nextKey).publicKey]}
    /\ nextKey' = nextKey + 1
    /\ UNCHANGED <<walletAddress, store, ops, net, sendCount, messagingVars, connectionStatus,
                   handshakedPeers, hasBroadcastedJoin, transfers, webSocket>>

InitDerive == InitHandshake

NextDerive ==
    \E c \in Clients : \E masterSeedHex \in 1 .. SeedCount : \E channelHash \in 1 .. RoomCount :
        DeriveRoomKeyPair(c, masterSeedHex, channelHash, MaxDerive)

SpecDerive == InitDerive /\ [][NextDerive]_vars

\* ------------------------------------------------- room without peer keys
\* A room in which no member publishes a public key: the key derivation of
\* client 2 fails, so that it enters the room with status "error" and announces
\* itself without a key; client 1 may be alone or receive that presence.
NextFallback ==
    \/ \E c \in Clients : DeriveKeyPairStart(c)
    \/ \E o \in ops : \E ok \in BOOLEAN : (o.client = 2 => ~ok) /\ DeriveKeyPairDone(o, ok)
    \/ \E c \in Clients : Connect(c)
    \/ \E c \in Clients : SocketOpen(c)
    \/ \E c \in Clients : AnnounceJoin(c)
    \/ \E c \in Clients : \E f \in net : HandleUserJoined(c, f)
    \/ \E c \in Clients : \E f \in net : HandleIAmHere(c, f)
    \/ \E c \in Clients : FallbackTimer(c)

\* the 200 ms timer of the fallback effect fires unless the effect is cleaned up
\* first, which happens only when connectionStatus or encryptionStatus changes
SpecFallback ==
    InitHandshake /\ [][NextFallback]_vars /\ \A c \in Clients : WF_vars(FallbackTimer(c))

\* ------------------------------------------------ foreign presence frames
\* Another member of the channel, whose client is not this program, announces
\* itself with a JWK that carries the private component d.

PrivateJwk == [x |-> 0, y |-> 0, d |-> 0]

PresenceTypes == {"user_joined", "i_am_here", "encryption_pubkey"}

\* the relay hands a presence frame of the other member to a connected client
ForeignPresence(c, type) ==
    /\ connectionStatus[c] = "connected"
    /\ toLowerCase(AddressOther) \notin DOMAIN store[c].peerPublicKeys
    /\ \A f \in net : f.to = c => f.sender # AddressOther
    /\ net' = net \cup {[to |-> c, type |-> type, mid |-> <<3, 0>>, sender |-> AddressOther,
                         data |-> [address |-> AddressOther, sender |-> AddressOther,
                                   publicKey |-> PrivateJwk]]}
    /\ UNCHANGED <<walletAddress, store, ops, nextKey, sendCount, messagingVars, setupVars>>

\* handleIncomingMessage, case "encryption_pubkey"
HandleEncryptionPubkey(c, f) ==
    /\ f \in net /\ f.to = c /\ f.type = "encryption_pubkey"
    /\ store' = [store EXCEPT ![c] = addPeerPublicKey(@, f.data.sender, f.data.publicKey)]
    /\ net' = net \ {f}
    /\ UNCHANGED <<walletAddress, ops, nextKey, sendCount, messagingVars, setupVars>>

NextPresence ==
    \/ \E c \in Clients : DeriveKeyPairStart(c)
    \/ \E o \in ops : \E ok \in BOOLEAN : DeriveKeyPairDone(o, ok)
    \/ \E c \in Clients : Connect(c)
    \/ \E c \in Clients : SocketOpen(c)
    \/ \E c \in Clients : AnnounceJoin(c)
    \/ \E c \in Clients : \E type \in PresenceTypes : ForeignPresence(c, type)
    \/ \E c \in Clients : \E f \in net : HandleUserJoined(c, f)
    \/ \E c \in Clients : \E f \in net : HandleIAmHere(c, f)
    \/ \E c \in Clients : \E f \in net : HandleEncryptionPubkey(c, f)

SpecPresence == InitHandshake /\ [][NextPresence]_vars

\* ------------------------------------------------- group delivery order
\* One member of a group room sends PermSend messages, one encryptOutgoing at a
\* time; the relay delivers them to the other member in any order, and the
\* receiver handles one frame at a time.
InitPermute ==
    /\ walletAddress = [c \in Clients |-> IF c = 1 THEN Address1 ELSE Address2]
    /\ store = GroupStore
    /\ ops = {}
    /\ net = {}
    /\ nextKey = 9
    /\ sendCount = [c \in Clients |-> 0]
    /\ emitted = {}
    /\ results = {}
    /\ lastRatchet = [c \in Clients |-> NoRatchet]
    /\ connectionStatus = [c \in Clients |-> "connected"]
    /\ handshakedPeers = [c \in Clients |-> {toLowerCase(walletAddress[Peer(c)])}]
    /\ hasBroadcastedJoin = [c \in Clients |-> TRUE]
    /\ x3dhLog = {}
    /\ transfers = [c \in Clients |-> <<>>]
    /\ webSocket = WS_INITIAL_STATE

NextPermute ==
    \/ SendGroupChatStart(1, PermSend, 1)
    \/ \E o \in ops : EncryptOutgoingGroupDone(o)
    \/ \E f \in net : HandleGroupChatStart(2, f)
    \/ \E o \in ops : DecryptIncomingGroupDone(o)

SpecPermute == InitPermute /\ [][NextPermute]_vars

\* ------------------------------------------------------- late sender key
\* A group room in which client 1 has distributed its sender key, and the
\* sender_key frame has not reached client 2 yet when client 1 starts to send.
KeyFrame ==
    [to |-> 2, type |-> "sender_key", mid |-> <<1, 0>>, sender |-> Address1,
     data |-> encryptSenderKeyForPeer(GroupStore[1].mySenderKeyState.chainKey,
                                      IdentityOf(1).privateKey, IdentityOf(2).publicKey,
                                      Address1, 0)]

InitLateKey ==
    /\ walletAddress = [c \in Clients |-> IF c = 1 THEN Address1 ELSE Address2]
    /\ store = [GroupStore EXCEPT ![2].peerSenderKeys = <<>>]
    /\ ops = {}
    /\ net = {KeyFrame}
    /\ nextKey = 9
    /\ sendCount = [c \in Clients |-> IF c = 1 THEN 1 ELSE 0]
    /\ emitted = {}
    /\ results = {}
    /\ lastRatchet = [c \in Clients |-> NoRatchet]
    /\ connectionStatus = [c \in Clients |-> "connected"]
    /\ handshakedPeers = [c \in Clients |-> {toLowerCase(walletAddress[Peer(c)])}]
    /\ hasBroadcastedJoin = [c \in Clients |-> TRUE]
    /\ x3dhLog = {}
    /\ transfers = [c \in Clients |-> <<>>]
    /\ webSocket = WS_INITIAL_STATE

NextLateKey ==
    \/ SendGroupChatStart(1, 1 + LateSend, 1)
    \/ \E o \in ops : EncryptOutgoingGroupDone(o)
    \/ \E f \in net : HandleSenderKeyStart(2, f, 1)
    \/ \E o \in ops : HandleSenderKeyDone(o)
    \/ \E f \in net : HandleGroupChatStart(2, f)
    \/ \E o \in ops : DecryptIncomingGroupDone(o)

SpecLateKey == InitLateKey /\ [][NextLateKey]_vars

\* -------------------------------------------------- group room handshake
\* useEncryptionSetup phase 2 in a room whose roomEncryptionMode is "group".

\* the start of one iteration of the for loop over newPeers, up to its await:
\* the peer is marked; when the mySenderKeyState the effect read at its start is
\* null, initializeGroupSenderKey is called, which reads the key pair and
\* peerPublicKeys with get() and sets encryptionMode.  effect holds what the
\* effect captured when it ran (getState(), and the peerPublicKeys and
\* encryptionStatus of the render)
GroupIteration(c, st, effect, todo) ==
    [st |-> IF effect.mySenderKeyState = NULL /\ st.encryptionKeyPair # NULL
            THEN [st EXCEPT !.encryptionMode = "group"] ELSE st,
     op |-> [client |-> c, kind |-> "groupSetup", mid |-> NULL,
             snap |-> [effect EXCEPT !.initKeyPair = st.encryptionKeyPair,
                                     !.initPeerKeys = st.peerPublicKeys],
             frame |-> [todo |-> todo]]]

\* phase 2 effect: newPeers is not empty; the async loop starts its first iteration
GroupSetupEffect(c) ==
    /\ connectionStatus[c] = "connected"
    /\ store[c].encryptionStatus \in {"handshaking", "ready"}
    /\ store[c].encryptionKeyPair # NULL
    /\ NewPeers(c) # {}
    /\ \E todo \in Orderings(NewPeers(c)) :
          LET effect == [mySenderKeyState |-> store[c].mySenderKeyState,
                         encryptionKeyPair |-> store[c].encryptionKeyPair,
                         peerPublicKeys |-> store[c].peerPublicKeys,
                         status |-> store[c].encryptionStatus,
                         initKeyPair |-> NULL, initPeerKeys |-> <<>>]
              r == GroupIteration(c, store[c], effect, todo)
          IN  /\ handshakedPeers' = [handshakedPeers EXCEPT ![c] = @ \cup {todo[1]}]
              /\ store' = [store EXCEPT ![c] = r.st]
              /\ ops' = ops \cup {r.op}
    /\ UNCHANGED <<walletAddress, net, nextKey, sendCount, messagingVars, connectionStatus,
                   hasBroadcastedJoin, x3dhLog, transfers, webSocket>>

\* the sender_key frames one iteration sends: the keys initializeGroupSenderKey
\* has encrypted for every peer it read, or the chain key the effect read at its
\* start, encrypted for the peer of the iteration
GroupEnvelopes(c, o, senderKey, k) ==
    IF o.snap.mySenderKeyState = NULL
    THEN {encryptSenderKeyForPeer(senderKey.chainKey, o.snap.initKeyPair.privateKey,
                                  o.snap.initPeerKeys[a], walletAddress[c], k) :
             a \in DOMAIN o.snap.initPeerKeys}
    ELSE {encryptSenderKeyForPeer(o.snap.mySenderKeyState.chainKey,
                                  o.snap.encryptionKeyPair.privateKey,
                                  o.snap.peerPublicKeys[o.frame.todo[1]],
                                  walletAddress[c], k)}

\* the rest of an iteration after its await: initializeGroupSenderKey sets
\* mySenderKeyState and "ready"; the sender_key frames are broadcast; then the
\* next iteration starts, or the loop ends and marks the room ready when the
\* effect ran with status "handshaking"
GroupSetupStep(o) ==
    /\ o \in ops /\ o.kind = "groupSetup"
    /\ LET c == o.client
           create == o.snap.mySenderKeyState = NULL
           senderKey == createSenderKeyState(walletAddress[c], nextKey)
           envelopes == GroupEnvelopes(c, o, senderKey, nextKey)
           frames == UNION {Broadcast(c, "sender_key", e) : e \in envelopes}
           st1 == IF create
                  THEN [store[c] EXCEPT !.mySenderKeyState = senderKey,
                                        !.encryptionStatus = "ready"]
                  ELSE store[c]
           rest == Tail(o.frame.todo)
           next == GroupIteration(c, st1, o.snap, rest)
       IN  /\ net' = net \cup frames
           /\ sendCount' = IF frames = {} THEN sendCount ELSE [sendCount EXCEPT ![c] = @ + 1]
           /\ nextKey' = nextKey + 1
           /\ x3dhLog' = x3dhLog \cup
                  {[kind |-> "distribute", by |-> c, mid |-> e.forPublicKey,
                    rootKey |-> IF create THEN senderKey.chainKey
                                ELSE o.snap.mySenderKeyState.chainKey] : e \in envelopes}
           /\ IF rest # <<>>
              THEN /\ store' = [store EXCEPT ![c] = next.st]
                   /\ handshakedPeers' = [handshakedPeers EXCEPT ![c] = @ \cup {rest[1]}]
                   /\ ops' = (ops \ {o}) \cup {next.op}
              ELSE /\ store' = [store EXCEPT ![c] =
                                   IF o.snap.status = "handshaking"
                                   THEN [st1 EXCEPT !.encryptionStatus = "ready"] ELSE st1]
                   /\ ops' = ops \ {o}
                   /\ UNCHANGED handshakedPeers
    /\ UNCHANGED <<walletAddress, messagingVars, connectionStatus, hasBroadcastedJoin,
                   transfers, webSocket>>

\* the i_am_here with which a third member, AddressOther, answers a user_joined
OtherReply(c) ==
    [to |-> c, type |-> "i_am_here", mid |-> <<3, 0>>, sender |-> AddressOther,
     data |-> [address |-> AddressOther, publicKey |-> IdentityOf(3).publicKey]]

\* the store after deriveKeyPair
KeyedStore(c) ==
    [INITIAL_STATE EXCEPT !.encryptionKeyPair = IdentityOf(c),
                          !.encryptionStatus = "handshaking"]

\* the store of a client that has stored the third member's key and has run
\* initializeGroupSenderKey for it
JoinedStore(c) ==
    [KeyedStore(c) EXCEPT !.peerPublicKeys = MapSet(@, toLowerCase(AddressOther),
                                                    IdentityOf(3).publicKey),
                          !.encryptionMode = "group",
                          !.mySenderKeyState =
                              createSenderKeyState(IF c = 1 THEN Address1 ELSE Address2, 6 + c),
                          !.encryptionStatus = "ready"]

\* A group room in which client 1 holds the sender key it made for a third
\* member that has gone since; client 2 has derived its key pair and joins.
InitGroupJoin ==
    /\ walletAddress = [c \in Clients |-> IF c = 1 THEN Address1 ELSE Address2]
    /\ store = [c \in Clients |-> IF c = 1 THEN JoinedStore(c) ELSE KeyedStore(c)]
    /\ ops = {}
    /\ net = {}
    /\ nextKey = 9
    /\ sendCount = [c \in Clients |-> 0]
    /\ emitted = {}
    /\ results = {}
    /\ lastRatchet = [c \in Clients |-> NoRatchet]
    /\ connectionStatus = [c \in Clients |-> "connected"]
    /\ handshakedPeers = [c \in Clients |-> IF c = 1 THEN {toLowerCase(AddressOther)} ELSE {}]
    /\ hasBroadcastedJoin = [c \in Clients |-> c = 1]
    /\ x3dhLog = {}
    /\ transfers = [c \in Clients |-> <<>>]
    /\ webSocket = WS_INITIAL_STATE

NextGroupJoin ==
    \/ \E c \in Clients : AnnounceJoin(c)
    \/ \E c \in Clients : \E f \in net : HandleUserJoined(c, f)
    \/ \E c \in Clients : \E f \in net : HandleIAmHere(c, f)
    \/ \E c \in Clients : GroupSetupEffect(c)
    \/ \E o \in ops : GroupSetupStep(o)
    \/ \E c \in Clients : \E f \in net : HandleSenderKeyStart(c, f, JoinPending)
    \/ \E o \in ops : HandleSenderKeyDone(o)
    \/ SendGroupChatStart(1, JoinSend, JoinPending)
    \/ \E o \in ops : EncryptOutgoingGroupDone(o)
    \/ \E c \in Clients : \E f \in net : HandleGroupChatStart(c, f)
    \/ \E o \in ops : DecryptIncomingGroupDone(o)

SpecGroupJoin == InitGroupJoin /\ [][NextGroupJoin]_vars

\* A group room that both clients enter: client 1 has announced itself and the
\* third member's answer is on its way; client 2 announces itself next.
InitGroupPeers ==
    /\ walletAddress = [c \in Clients |-> IF c = 1 THEN Address1 ELSE Address2]
    /\ store = [c \in Clients |-> KeyedStore(c)]
    /\ ops = {}
    /\ net = {OtherReply(1)}
    /\ nextKey = 9
    /\ sendCount = [c \in Clients |-> 0]
    /\ emitted = {}
    /\ results = {}
    /\ lastRatchet = [c \in Clients |-> NoRatchet]
    /\ connectionStatus = [c \in Clients |-> "connected"]
    /\ handshakedPeers = [c \in Clients |-> {}]
    /\ hasBroadcastedJoin = [c \in Clients |-> c = 1]
    /\ x3dhLog = {}
    /\ transfers = [c \in Clients |-> <<>>]
    /\ webSocket = WS_INITIAL_STATE

NextGroupPeers ==
    \/ \E c \in Clients : AnnounceJoin(c)
    \/ \E c \in Clients : \E f \in net : HandleUserJoined(c, f)
    \/ \E c \in Clients : \E f \in net : HandleIAmHere(c, f)
    \/ \E c \in Clients : GroupSetupEffect(c)
    \/ \E o \in ops : GroupSetupStep(o)
    \/ \E f \in net : HandleSenderKeyStart(2, f, JoinPending)
    \/ \E o \in ops : HandleSenderKeyDone(o)

SpecGroupPeers == InitGroupPeers /\ [][NextGroupPeers]_vars

\* A group room that client 2 enters, leaves and enters again: its second
\* deriveKeyPair yields another key pair, which replaces the first in the
\* peerPublicKeys of client 1.
InitRejoin ==
    /\ walletAddress = [c \in Clients |-> IF c = 1 THEN Address1 ELSE Address2]
    /\ store = [c \in Clients |-> KeyedStore(c)]
    /\ ops = {}
    /\ net = {}
    /\ nextKey = 9
    /\ sendCount = [c \in Clients |-> 0]
    /\ emitted = {}
    /\ results = {}
    /\ lastRatchet = [c \in Clients |-> NoRatchet]
    /\ connectionStatus = [c \in Clients |-> "connected"]
    /\ handshakedPeers = [c \in Clients |-> {}]
    /\ hasBroadcastedJoin = [c \in Clients |-> c = 1]
    /\ x3dhLog = {}
    /\ transfers = [c \in Clients |-> <<>>]
    /\ webSocket = WS_INITIAL_STATE

NextRejoin ==
    \/ \E c \in Clients : AnnounceJoin(c)
    \/ \E c \in Clients : \E f \in net : HandleUserJoined(c, f)
    \/ \E c \in Clients : \E f \in net : HandleIAmHere(c, f)
    \/ \E c \in Clients : GroupSetupEffect(c)
    \/ \E o \in ops : GroupSetupStep(o)
    \/ ExitRoom(2)
    \/ \E o \in ops : Teardown(o)
    \/ \E c \in Clients : \E f \in net : HandleUserLeft(c, f)
    \/ \E c \in Clients : DeriveKeyPairStart(c)
    \/ \E o \in ops : \E ok \in BOOLEAN : DeriveKeyPairDone(o, ok)
    \/ \E c \in Clients : Connect(c)
    \/ \E c \in Clients : SocketOpen(c)

SpecRejoin == InitRejoin /\ [][NextRejoin]_vars

\* ------------------------------------------------ repeated transfer frames
\* The transfer of SpecTransfer, after which the peer or the relay may deliver
\* chunk frames again, chunk frames beyond the last index, and the completion
\* frame again.

\* the frames a sender that has finished sendFile can repeat: every chunk index
\* from 0 to totalChunks, the last of which is out of range, and the completion
ExtraFrames(c) ==
    UNION {LET meta == transfers[c][id].meta
           IN  {[to |-> Peer(c), type |-> "file_transfer_chunk", mid |-> id,
                 sender |-> walletAddress[c],
                 data |-> [transferId |-> id, chunkIndex |-> i,
                           ciphertext |-> aesGcmEncrypt(meta.transferKey, <<"chunk", i>>,
                                                        <<id, i>>).ciphertext,
                           iv |-> <<id, i>>]] : i \in 0 .. meta.totalChunks}
               \cup {[to |-> Peer(c), type |-> "file_transfer_complete", mid |-> id,
                      sender |-> walletAddress[c], data |-> [transferId |-> id]]} :
           id \in {t \in DOMAIN transfers[c] : transfers[c][t].status = "complete" /\ t[1] = c}}

\* a frame of the transfer arrives once more, or with an index out of range
RepeatFrame(c) ==
    /\ \E f \in ExtraFrames(c) : f \notin net /\ net' = net \cup {f}
    /\ UNCHANGED <<walletAddress, store, ops, nextKey, sendCount, messagingVars, setupVars>>

NextChunks ==
    \/ \E c \in Clients : SendFileStart(c, MaxFiles)
    \/ \E o \in ops : SendFileDone(o)
    \/ \E c \in Clients : \E f \in net : HandleTransferStart(c, f)
    \/ \E c \in Clients : \E f \in net : HandleTransferChunkStart(c, f, MaxChunkPending)
    \/ \E o \in ops : HandleTransferChunkDone(o)
    \/ \E c \in Clients : \E f \in net : HandleTransferComplete(c, f)
    \/ \E c \in Clients : RepeatFrame(c)

SpecChunks == InitTransfer /\ [][NextChunks]_vars

\* ------------------------------------------- transfer start under way
\* The transfer of SpecTransfer with the frames handed to the receiver in the
\* order they were sent; the handling of the start frame is suspended at its
\* awaits while the frames behind it are handled.

\* a file_transfer_start frame up to the first await of its handling:
\* decryptIncoming for an encrypted payload, importTransferKey otherwise
HandleTransferStartAwait(c, f) ==
    /\ f \in net /\ f.to = c /\ f.type = "file_transfer_start"
    /\ PendingOf(c) = {}
    /\ net' = net \ {f}
    /\ ops' = ops \cup {[client |-> c, kind |-> "transferStart", mid |-> f.mid,
                         snap |-> store[c].doubleRatchetState, frame |-> f]}
    /\ UNCHANGED <<walletAddress, store, nextKey, sendCount, messagingVars, setupVars>>

\* the rest of the handling: the ratchet state is written, handleTransferStart
\* registers the transfer
HandleTransferStartDone(o) ==
    /\ o \in ops /\ o.kind = "transferStart"
    /\ LET c == o.client
           f == o.frame
       IN  IF "ciphertext" \in DOMAIN f.data
           THEN LET r == decryptWithDoubleRatchet(o.snap, f.data, nextKey)
                IN  /\ store' = IF r.ok THEN [store EXCEPT ![c].doubleRatchetState = r.nextState]
                                ELSE store
                    /\ nextKey' = IF r.ok /\ r.ratcheted THEN nextKey + 1 ELSE nextKey
                    /\ transfers' = IF r.ok
                                    THEN [transfers EXCEPT ![c] =
                                             MapSet(@, r.plaintext.transferId,
                                                    NewTransfer(r.plaintext, "receiving"))]
                                    ELSE transfers
           ELSE /\ transfers' = [transfers EXCEPT ![c] =
                                    MapSet(@, f.data.transferId,
                                           NewTransfer(f.data, "receiving"))]
                /\ UNCHANGED <<store, nextKey>>
    /\ ops' = ops \ {o}
    /\ UNCHANGED <<walletAddress, webSocket, net, sendCount, messagingVars, connectionStatus,
                   handshakedPeers, hasBroadcastedJoin, x3dhLog>>

\* the start frame of the transfer has been handed to client c
StartDelivered(c) == ~\E f \in net : f.to = c /\ f.type = "file_transfer_start"

NextStartRace ==
    \/ \E c \in Clients : SendFileStart(c, MaxFiles)
    \/ \E o \in ops : SendFileDone(o)
    \/ \E c \in Clients : \E f \in net : HandleTransferStartAwait(c, f)
    \/ \E o \in ops : HandleTransferStartDone(o)
    \/ \E c \in Clients : \E f \in net :
          StartDelivered(c) /\ HandleTransferChunkStart(c, f, MaxChunkPending)
    \/ \E o \in ops : HandleTransferChunkDone(o)
    \/ \E c \in Clients : \E f \in net : StartDelivered(c) /\ HandleTransferComplete(c, f)

SpecStartRace == InitTransfer /\ [][NextStartRace]_vars

\* ------------------------------------------------------- WebSocket store
\* useWebSocketStore of one client.  The application calls connect() from the
\* connection effect of useChatConnection and disconnect() from the cleanup of
\* that effect and from exitRoom; the network opens and closes sockets.

\* the sockets that are CONNECTING or OPEN
Live(ws) == {s \in DOMAIN ws.readyState : ws.readyState[s] \in {"CONNECTING", "OPEN"}}

\* connect(jwt, channel): return if the store's socket is OPEN; otherwise create
\* a WebSocket and set({connectionStatus: "connecting"}), set({socket})
connect(ws) ==
    IF \E s \in ws.socket : ws.readyState[s] = "OPEN"
    THEN ws
    ELSE [ws EXCEPT !.connectionStatus = "connecting",
                    !.readyState = Append(@, "CONNECTING"),
                    !.socket = {Len(ws.readyState) + 1}]

\* an onclose that schedules a reconnect whatever reconnectAttempts is
onclose_AlwaysReconnects(ws, s) ==
    [ws EXCEPT !.connectionStatus = "disconnected",
               !.socket = {},
               !.readyState[s] = "CLOSED",
               !.closes = @ + 1,
               !.reconnectAttempts = @ + 1,
               !.timers = @ + 1]

\* socket.onclose: set({connectionStatus: "disconnected", socket: null}), and a
\* reconnect timer while reconnectAttempts < MAX_RECONNECT_ATTEMPTS
onclose(ws, s) ==
    LET attempts == ws.reconnectAttempts
    IN  [ws EXCEPT !.connectionStatus = "disconnected",
                   !.socket = {},
                   !.readyState[s] = "CLOSED",
                   !.closes = @ + 1,
                   !.reconnectAttempts = IF attempts < MAX_RECONNECT_ATTEMPTS
                                         THEN attempts + 1 ELSE attempts,
                   !.timers = IF attempts < MAX_RECONNECT_ATTEMPTS THEN @ + 1 ELSE @]

\* the connection effect of useChatConnection runs: connect(jwt, channel)
AppConnect ==
    /\ webSocket.left
    /\ Len(webSocket.readyState) < MaxSockets
    /\ webSocket' = [connect(webSocket) EXCEPT !.left = FALSE]
    /\ UNCHANGED <<walletAddress, store, ops, net, nextKey, sendCount, messagingVars,
                   connectionStatus, handshakedPeers, hasBroadcastedJoin, x3dhLog, transfers>>

\* the cleanup of the connection effect, or exitRoom: disconnect() closes the
\* store's socket, whose close event comes later, and sets reconnectAttempts
AppDisconnect ==
    /\ ~webSocket.left
    /\ webSocket' = [webSocket EXCEPT
                        !.readyState = [s \in DOMAIN @ |->
                                           IF s \in webSocket.socket /\ @[s] # "CLOSED"
                                           THEN "CLOSING" ELSE @[s]],
                        !.connectionStatus = "disconnected",
                        !.socket = {},
                        !.reconnectAttempts = MAX_RECONNECT_ATTEMPTS,
                        !.left = TRUE]
    /\ UNCHANGED <<walletAddress, store, ops, net, nextKey, sendCount, messagingVars,
                   connectionStatus, handshakedPeers, hasBroadcastedJoin, x3dhLog, transfers>>

\* socket.onopen of a socket whose connection is established
SocketOnOpen(s) ==
    /\ s \in DOMAIN webSocket.readyState
    /\ webSocket.readyState[s] = "CONNECTING"
    /\ webSocket' = [webSocket EXCEPT !.readyState[s] = "OPEN",
                                      !.connectionStatus = "connected",
                                      !.socket = {s},
                                      !.reconnectAttempts = 0,
                                      !.closes = 0]
    /\ UNCHANGED <<walletAddress, store, ops, net, nextKey, sendCount, messagingVars,
                   connectionStatus, handshakedPeers, hasBroadcastedJoin, x3dhLog, transfers>>

\* the close event of a socket: the connection failed or was lost, or close()
\* was called on it
SocketOnClose(s) ==
    /\ s \in DOMAIN webSocket.readyState
    /\ webSocket.readyState[s] # "CLOSED"
    /\ webSocket' = onclose(webSocket, s)
    /\ UNCHANGED <<walletAddress, store, ops, net, nextKey, sendCount, messagingVars,
                   connectionStatus, handshakedPeers, hasBroadcastedJoin, x3dhLog, transfers>>

\* a reconnect timer fires: get().connect(jwt, channel)
ReconnectTimer ==
    /\ webSocket.timers > 0
    /\ Len(webSocket.readyState) < MaxSockets
    /\ webSocket' = [connect(webSocket) EXCEPT !.timers = @ - 1]
    /\ UNCHANGED <<walletAddress, store, ops, net, nextKey, sendCount, messagingVars,
                   connectionStatus, handshakedPeers, hasBroadcastedJoin, x3dhLog, transfers>>

InitSocket == InitHandshake /\ walletAddress[1] = <<48, 120, 97>>

NextSocket ==
    \/ AppConnect
    \/ AppDisconnect
    \/ \E s \in DOMAIN webSocket.readyState : SocketOnOpen(s)
    \/ \E s \in DOMAIN webSocket.readyState : SocketOnClose(s)
    \/ ReconnectTimer

SpecSocket == InitSocket /\ [][NextSocket]_vars

\* ------------------------------------------------------------ properties
DR(c) == store[c].doubleRatchetState

EmittedBy(c) == {e \in emitted : e.from = c /\ e.ok}

\* messages of one sending chain of a client: same sender, same DH ratchet key
SameChain(e) == {f \in EmittedBy(e.from) :
                    f.message.senderDhPublicKey = e.message.senderDhPublicKey}

\* C1: the messages returned by encryptOutgoing calls on one session, with no DH
\* ratchet in between, have pairwise distinct chainIndex values that form the
\* range 0 .. n-1, and no message key encrypts two messages.
C1_DistinctContiguousChainIndex ==
    \A e \in emitted : e.ok =>
        /\ \A f \in SameChain(e) : f.mid # e.mid =>
              /\ f.message.chainIndex # e.message.chainIndex
              /\ f.message.ciphertext.key # e.message.ciphertext.key
        /\ {f.message.chainIndex : f \in SameChain(e)} = 0 .. (Cardinality(SameChain(e)) - 1)

\* C2: in a direct room of two peers only the peer whose lowercase address is the
\* smaller one ever sends an x3dh_init frame, whatever the order of connection,
\* presence and key arrival.
C2_OnlyLowerAddressInitiates ==
    /\ \A e \in x3dhLog : e.kind = "init" =>
          StrLess(toLowerCase(walletAddress[e.by]), toLowerCase(walletAddress[Peer(e.by)]))
    /\ \A f \in net : f.type = "x3dh_init" =>
          \A c \in Clients : toLowerCase(walletAddress[c]) # toLowerCase(f.sender) =>
              StrLess(toLowerCase(f.sender), toLowerCase(walletAddress[c]))

\* an x3dh_init frame has been sent, and the peer with the larger address has run
\* its own setup loop over the initiator's key
C2_Witness ==
    \E e \in x3dhLog :
        /\ e.kind = "init"
        /\ toLowerCase(walletAddress[e.by]) \in handshakedPeers[Peer(e.by)]

C4_FirstMessagesDecrypt ==
    \A c \in Clients :
        /\ \A e \in emitted : e.mid = <<c, 0>> => e.ok
        /\ \A r \in results : (r.mid = <<c, 0>> /\ r.intact) => r.plaintext = r.mid

\* everything the peer of c has sent was handed to decryptIncoming, unaltered and
\* chain after chain
Quiet(c) ==
    /\ PendingOf(c) = {}
    /\ \A f \in net : f.to # c
    /\ \A r \in results : r.to = c => r.intact /\ ~r.late

CurrentChainOf(c) == {e \in EmittedBy(Peer(c)) :
                         e.message.senderDhPublicKey = DR(c).remoteDhPublicKey}

\* C5: the messages of one sending chain, handed to decryptIncoming one at a time
\* in any order, all decrypt to their plaintext; afterwards receivingChainIndex is
\* the number of messages and skippedMessageKeys is empty.
C5_PermutationDecrypts ==
    \A c \in Clients :
        /\ \A r \in results : (r.to = c /\ r.intact /\ ~r.late) => r.plaintext = r.mid
        /\ Quiet(c) =>
              /\ DR(c).receivingChainIndex = Cardinality(CurrentChainOf(c))
              /\ DOMAIN DR(c).skippedMessageKeys = {}

\* C6: the first message sent after a DH ratchet step carries chainIndex 0 and, as
\* previousChainLength, the number of messages sent on the chain the step replaced.
C6_PreviousChainLength ==
    \A e \in emitted : (e.ok /\ e.prevLen # NoRatchet) =>
        /\ e.message.chainIndex = 0
        /\ \A n \in e.prevLen : e.message.previousChainLength = n

\* C7: a message of the sender's previous chain that arrives after the receiver
\* has ratcheted to the sender's new chain still decrypts.
C7_LateOldChainMessageDecrypts ==
    \A r \in results : (r.intact /\ r.late) => r.plaintext = r.mid

\* a DH ratchet step: a new DH key pair and a sending chain restarted at 0
IsRatchetStep(old, new) ==
    /\ new.dhKeyPair # old.dhKeyPair
    /\ new.sendingChainIndex = 0

\* C8: the stored sendingChainIndex never decreases except in a DH ratchet step,
\* and the commit of an operation leaves the chains and keys it did not advance
\* as the operations that finished before it left them.
C8_NoRollback ==
    [][\A c \in Clients :
          /\ \/ DR(c)'.sendingChainIndex >= DR(c).sendingChainIndex
             \/ IsRatchetStep(DR(c), DR(c)')
          /\ \A o \in PendingOf(c) : (o \notin ops' /\ o.kind = "encrypt") =>
                /\ DR(c)'.receivingChainKey = DR(c).receivingChainKey
                /\ DR(c)'.receivingChainIndex = DR(c).receivingChainIndex
                /\ DR(c)'.rootKey = DR(c).rootKey
                /\ DR(c)'.dhKeyPair = DR(c).dhKeyPair
          /\ \A o \in PendingOf(c) :
                (o \notin ops' /\ o.kind = "decrypt" /\ ~IsRatchetStep(DR(c), DR(c)')) =>
                /\ DR(c)'.sendingChainKey = DR(c).sendingChainKey
                /\ DR(c)'.rootKey = DR(c).rootKey
                /\ DR(c)'.dhKeyPair = DR(c).dhKeyPair]_vars

\* C9: decryptIncoming on a message whose ciphertext was altered in transit
\* returns null and writes nothing to the store.
C9_AlteredCiphertextRejected ==
    [][\A o \in ops :
          (o.kind = "decrypt" /\ ~o.frame.data.ciphertext.intact /\ o \notin ops') =>
              /\ store' = store
              /\ \E r \in results' \ results : r.mid = o.mid /\ r.plaintext = NULL]_vars

\* an altered message has been handed to decryptIncoming of a client that had
\* already received on this session, and the call has returned
C9_Witness ==
    \E r \in results : ~r.intact /\ DR(r.to).receivingChainIndex > 0

\* the message returned by encryptOutgoing for the frame a decryptIncoming call
\* was handed, when the call was handed it with a header field changed
HeaderChangedFrom(o) ==
    {e \in emitted :
        /\ e.ok /\ e.mid = o.mid
        /\ o.frame.data.ciphertext = e.message.ciphertext
        /\ o.frame.data.iv = e.message.iv
        /\ \/ o.frame.data.senderAddress # e.message.senderAddress
           \/ o.frame.data.chainIndex # e.message.chainIndex
           \/ o.frame.data.senderDhPublicKey # e.message.senderDhPublicKey}

\* C11: a message whose senderAddress, chainIndex or senderDhPublicKey was changed
\* in transit, ciphertext and iv intact, is not decrypted: decryptIncoming
\* returns null.
C11_HeaderBoundToCiphertext ==
    [][\A o \in ops :
          (o.kind = "decrypt" /\ o \notin ops' /\ HeaderChangedFrom(o) # {}) =>
              \E r \in results' \ results : r.mid = o.mid /\ r.plaintext = NULL]_vars

\* C12: no chat frame handed to the relay carries the message text in the clear,
\* whatever encryptOutgoing returns or throws.
C12_NoPlaintextChatFrame ==
    \A f \in net : f.type = "chat" => "text" \notin DOMAIN f.data

\* the steps of encryptionStatus along idle, deriving, handshaking, ready, and
\* into error from a status other than ready
StatusSteps ==
    {<<"idle", "deriving">>, <<"deriving", "handshaking">>, <<"handshaking", "ready">>,
     <<"idle", "error">>, <<"deriving", "error">>, <<"handshaking", "error">>}

\* the step is the reset() of client c
IsReset(c) == \E o \in ops : o.kind = "exit" /\ o.client = c /\ o \notin ops'

\* C13: apart from reset(), encryptionStatus changes only by one step of the
\* chain idle, deriving, handshaking, ready, or into error from a status other
\* than ready; this includes operations that complete after a reset().
C13_StatusChain ==
    [][\A c \in Clients :
          \/ IsReset(c)
          \/ store[c].encryptionStatus = store'[c].encryptionStatus
          \/ <<store[c].encryptionStatus, store'[c].encryptionStatus>> \in StatusSteps]_vars

\* C14: in direct mode with a known peer, encryptionStatus "ready" implies that
\* the Double Ratchet session exists.
C14_ReadyImpliesRatchet ==
    \A c \in Clients :
        (/\ store[c].encryptionMode = "direct"
         /\ \E a \in DOMAIN store[c].peerPublicKeys : a # toLowerCase(walletAddress[c])
         /\ store[c].encryptionStatus = "ready")
        => store[c].doubleRatchetState # NULL

\* the fields that reset() clears and that only a new room entry may fill
KeyMaterial(st) ==
    <<st.encryptionKeyPair, st.doubleRatchetState, st.pendingX3DHEphemeralKeyPair,
      st.mySenderKeyState, st.peerSenderKeys, st.encryptionStatus>>

\* C15: after reset() the key pair, the ratchet state, the sender keys and the
\* status keep their initial values until a new deriveKeyPair starts: no
\* operation that was in flight writes its result into the store.
C15_NoWriteAfterReset ==
    [][\A c \in Clients :
          (\E e \in Resets : e.by = c) /\ KeyMaterial(store[c]) = KeyMaterial(INITIAL_STATE)
          => KeyMaterial(store'[c]) = KeyMaterial(INITIAL_STATE)]_vars

\* the state rekeyOnMemberLeave leaves for the departed member AddressOther: no
\* envelope for its key, no entry in either map, a fresh chain at index 0
RekeyedWithout(c, o) ==
    /\ \A f \in net' \ net :
          /\ f.data.forPublicKey # IdentityOf(3).publicKey
          /\ f.data.encryptedChainKey.key #
                 deriveSharedSecret(o.snap.encryptionKeyPair.privateKey, IdentityOf(3).publicKey)
    /\ toLowerCase(AddressOther) \notin DOMAIN store'[c].peerPublicKeys
    /\ toLowerCase(AddressOther) \notin DOMAIN store'[c].peerSenderKeys
    /\ store'[c].mySenderKeyState.chainIndex = 0
    /\ store'[c].mySenderKeyState.chainKey.n = 0
    /\ store'[c].mySenderKeyState.chainKey.base # store[c].mySenderKeyState.chainKey.base

\* the decryption that completes is one of a message sent after the sender's
\* rekeyOnMemberLeave, by a peer that has processed its envelope
AfterRekey(o) ==
    \E e \in Rekeys :
        /\ e.by = o.mid[1]
        /\ o.mid[2] >= e.mid[2]
        /\ o.snap.chainKey.base = e.rootKey.base

\* C16: rekeyOnMemberLeave(L) returns no envelope for L's key, leaves L in
\* neither peerPublicKeys nor peerSenderKeys and a fresh sender chain at index 0;
\* a remaining peer that has processed its envelope decrypts the messages sent
\* afterwards.
C16_RekeyExcludesLeaver ==
    [][\A o \in ops :
          /\ (o.kind = "rekey" /\ o \notin ops') => RekeyedWithout(o.client, o)
          /\ (o.kind = "decryptGroup" /\ o \notin ops' /\ AfterRekey(o)) =>
                 \E r \in results' : r.mid = o.mid /\ r.to = o.client /\ r.plaintext = o.mid]_vars

\* the sender chains handed to AddressOther while it was a member
LeaverKnows == {RekeyStore[c].mySenderKeyState.chainKey.base : c \in Clients}

\* C17: once a client of a group room has handled user_left for a member and
\* has nothing in flight, it has re-keyed: its sender chain is not one the
\* departed member holds, so that member cannot decrypt later messages.
C17_RekeyAfterUserLeft ==
    \A c \in Clients :
        (/\ ~\E f \in net : f.to = c /\ f.type = "user_left"
         /\ PendingOf(c) = {})
        => store[c].mySenderKeyState.chainKey.base \notin LeaverKnows

\* the transfers a client receives (the first component of an id is the sender)
ReceivedBy(c) == {id \in DOMAIN transfers[c] : id[1] # c}

\* every frame for c has been handled and no operation is in flight
TransferQuiet(c) == ops = {} /\ ~\E f \in net : f.to = c

AllChunksStored(t) == \A i \in 0 .. (t.meta.totalChunks - 1) : i \in DOMAIN t.chunks

\* C18: once TransferStart is processed, in every arrival order and overlap of
\* the chunk frames and TransferComplete, the transfer is finalized exactly when
\* the completion is signaled and every chunk is stored, never fails, and ends
\* in status "complete".
C18_FinalizedExactlyOnce ==
    \A c \in Clients : \A id \in ReceivedBy(c) :
        LET t == transfers[c][id]
        IN  /\ t.status = "complete" <=> (t.completionSignaled /\ AllChunksStored(t))
            /\ t.status # "error"
            /\ (TransferQuiet(c) /\ ~\E r \in results : r.to = c) => t.status = "complete"

C18_Witness ==
    \E c \in Clients : \E id \in ReceivedBy(c) :
        /\ transfers[c][id].status = "complete"
        /\ transfers[c][id].receivedCount = TotalChunks
        /\ ~\E r \in results : r.to = c

\* C19: no file_transfer_start frame carries the metadata, and with it the raw
\* transfer key, in the clear.
C19_TransferKeyNeverInClear ==
    \A f \in net : f.type = "file_transfer_start" => "transferKey" \notin DOMAIN f.data

\* C20: a receiving transfer that makes no further progress is aborted: when
\* nothing is left to handle, no transfer is still "receiving".
C20_StalledTransferAborted ==
    \A c \in Clients : \A id \in ReceivedBy(c) :
        TransferQuiet(c) => transfers[c][id].status # "receiving"

\* C21: two calls of deriveRoomKeyPairFromMasterSeed with the same master seed
\* and the same channelHash return the same public key.
C21_DerivationDeterministic ==
    \A e1, e2 \in Derivations : e1.mid = e2.mid => e1.rootKey = e2.rootKey

\* C22: the skipped message keys stored for a sender never number more than
\* 1000 (MAX_SKIPPED_TOTAL); a decrypt that would exceed it evicts the oldest.
C22_SkippedKeysBounded ==
    \A c \in Clients : \A a \in DOMAIN store[c].peerSenderKeys :
        Cardinality(DOMAIN store[c].peerSenderKeys[a].skippedMessageKeys) <= 1000

\* a decryptIncoming call that returns plaintext when it completes
Yields(o) ==
    /\ o.kind = "decrypt"
    /\ decryptWithDoubleRatchet(o.snap, o.frame.data, nextKey).ok

\* the message of the call has already given plaintext to the same client
Delivered(o) ==
    \E r \in results : r.mid = o.mid /\ r.to = o.client /\ r.plaintext # NULL

\* C23: an encrypted message yields plaintext at most once: a decryptIncoming
\* call on a message that has already been decrypted, by a completed call or by
\* one that was running when this one started, returns no plaintext.
C23_PlaintextAtMostOnce ==
    [][\A o \in ops : (o \notin ops' /\ Yields(o)) => ~Delivered(o)]_vars

\* the message keys a client has used: to encrypt a message it has sent, or to
\* decrypt a message that has given it plaintext
UsedKeys(c) ==
    {e.message.ciphertext.key : e \in EmittedBy(c)} \cup
    {e.message.ciphertext.key :
        e \in {e \in emitted : e.ok /\ \E r \in results :
                   r.mid = e.mid /\ r.to = c /\ r.plaintext # NULL}}

\* the message key is stored in the state, or is HMAC(ck, 0x02) of a chain key
\* that ratchetStep reaches from a chain key stored in the state
Derivable(st, mk) ==
    /\ st # NULL
    /\ \/ \E id \in DOMAIN st.skippedMessageKeys : st.skippedMessageKeys[id] = mk
       \/ \E ck \in {st.sendingChainKey, st.receivingChainKey} \ {NULL} :
              ck.base = mk[2] /\ ck.n <= mk[3]

\* C24: once an encrypt or a decrypt has been committed, the chain key it
\* ratcheted is gone from the stored session state and the message key it used
\* cannot be derived from the keys the store holds, whatever the interleaving
\* of the operations on the store.
C24_UsedKeyNotDerivable ==
    \A c \in Clients : \A mk \in UsedKeys(c) : ~Derivable(DR(c), mk)

\* C25: decryptWithSenderKey on a message whose chainIndex is below the chain
\* index of the state: with a skipped key stored for the index the message is
\* decrypted, exactly that key is removed and chainKey and chainIndex stay as
\* they are; with none stored the call fails and the stored state is unchanged.
C25_BelowChainIndex ==
    [][\A o \in ops :
          (/\ o \notin ops' /\ o.kind = "decryptGroup"
           /\ o.frame.data.chainIndex < o.snap.chainIndex) =>
          LET c == o.client
              a == toLowerCase(o.frame.data.senderAddress)
              i == o.frame.data.chainIndex
              old == store[c].peerSenderKeys[a]
              new == store'[c].peerSenderKeys[a]
          IN  IF i \in DOMAIN old.skippedMessageKeys
              THEN /\ \E r \in results' : /\ r.mid = o.mid /\ r.to = c
                                          /\ r.plaintext = o.frame.data.ciphertext.pt
                   /\ new.skippedMessageKeys = MapDelete(old.skippedMessageKeys, i)
                   /\ new.chainKey = old.chainKey
                   /\ new.chainIndex = old.chainIndex
                   /\ store' = [store EXCEPT ![c].peerSenderKeys[a] = new]
              ELSE /\ \E r \in results' : r.mid = o.mid /\ r.to = c /\ r.plaintext = NULL
                   /\ store' = store]_vars

\* a message decrypted with its skipped key, and one below the chain index
\* whose key is not stored and that has been refused
C25_Witness ==
    LET st == store[2].peerSenderKeys[toLowerCase(Address1)]
    IN  /\ \E r \in results : r.mid = <<1, 0>> /\ r.to = 2 /\ r.plaintext = <<1, 0>>
        /\ 0 \notin DOMAIN st.skippedMessageKeys
        /\ 1 \in DOMAIN st.skippedMessageKeys
        /\ \E r \in results : r.mid = <<1, GapIndex(0)>> /\ r.to = 2 /\ r.plaintext = NULL

\* every message of the sender has been sent, delivered and handled
PermuteQuiet ==
    /\ ops = {}
    /\ \A f \in net : f.type # "chat"

\* C26: sender key messages encrypted in order and delivered one at a time in
\* any order within MAX_SKIP all decrypt to their plaintext; once all have been
\* handled the chainIndex of the receiver equals that of the sender and no
\* skipped key is left.
C26_AnyOrderDecrypts ==
    LET st == store[2].peerSenderKeys[toLowerCase(Address1)]
    IN  /\ \A r \in results : \E e \in EmittedBy(1) :
              e.mid = r.mid /\ r.plaintext = e.message.ciphertext.pt /\ r.plaintext = e.mid
        /\ PermuteQuiet =>
              /\ \A e \in EmittedBy(1) : \E r \in results : r.mid = e.mid /\ r.to = 2
              /\ st.chainIndex = store[1].mySenderKeyState.chainIndex
              /\ st.skippedMessageKeys = <<>>

\* all PermSend messages handled, the last one sent first and the first one last
C26_Witness ==
    /\ PermuteQuiet
    /\ sendCount[1] = PermSend
    /\ store[2].peerSenderKeys[toLowerCase(Address1)].chainIndex = PermSend
    /\ \E r \in results : r.mid = <<1, PermSend - 1>> /\ r.ahead = PermSend - 1
    /\ \E r \in results : r.mid = <<1, 0>> /\ r.ahead < 0

\* C27: a JWK that carries the private component d, received in user_joined,
\* i_am_here or encryption_pubkey, is rejected: it is never stored in
\* peerPublicKeys.
C27_NoPrivateJwkStored ==
    \A c \in Clients : \A a \in DOMAIN store[c].peerPublicKeys :
        "d" \notin DOMAIN store[c].peerPublicKeys[a]

\* C28: an x3dh_response handled while pendingX3DHEphemeralKeyPair is null is
\* rejected: no field of the encryption state changes and no session is
\* completed from it.
C28_ResponseWithoutPendingInit ==
    [][\A f \in net :
          (/\ f.type = "x3dh_response" /\ f \notin net'
           /\ store[f.to].pendingX3DHEphemeralKeyPair = NULL) =>
          /\ store'[f.to] = store[f.to]
          /\ ops' = ops]_vars

\* a client that has never initiated has answered an x3dh_init, and has
\* received and handled its own x3dh_response
C28_Witness ==
    \E e \in x3dhLog :
        /\ e.kind = "respond"
        /\ store[e.by].pendingX3DHEphemeralKeyPair = NULL
        /\ store[e.by].doubleRatchetState # NULL
        /\ \A g \in x3dhLog : g.by = e.by => g.kind = "respond"
        /\ \A f \in net : ~(f.type = "x3dh_response" /\ f.to = e.by /\ f.mid = e.mid)
        /\ \A o \in ops : o.client # e.by

\* a group chat frame whose sender has no entry in peerSenderKeys of the receiver
NoSenderKey(f) ==
    /\ f.type = "chat" /\ "ciphertext" \in DOMAIN f.data
    /\ store[f.to].encryptionMode = "group"
    /\ toLowerCase(f.sender) # toLowerCase(walletAddress[f.to])
    /\ toLowerCase(f.data.senderAddress) \notin DOMAIN store[f.to].peerSenderKeys

\* C29: in group mode a message from a sender without an entry in
\* peerSenderKeys gives no plaintext and changes no encryption state, and it is
\* not kept: it is not decrypted when the key of the sender arrives later.
C29_NoSenderKeyDropped ==
    /\ [][\A f \in net : (NoSenderKey(f) /\ f \notin net') =>
              /\ store' = store
              /\ ops' = ops
              /\ \E r \in results' : r.mid = f.mid /\ r.to = f.to /\ r.plaintext = NULL]_vars
    /\ [](\A r \in results : r.plaintext = NULL =>
              /\ \A f \in net : ~(f.type = "chat" /\ f.mid = r.mid /\ f.to = r.to)
              /\ \A o \in ops : ~(o.kind = "decryptGroup" /\ o.mid = r.mid /\ o.client = r.to)
              /\ \A q \in results : q.mid = r.mid /\ q.to = r.to => q.plaintext = NULL)

\* the first message came before the sender key and was dropped; the key has
\* arrived since and a later message has been decrypted with it
C29_Witness ==
    /\ \E r \in results : r.mid = <<1, 1>> /\ r.to = 2 /\ r.plaintext = NULL
    /\ \E r \in results : r.mid = <<1, 2>> /\ r.to = 2 /\ r.plaintext = <<1, 2>>
    /\ toLowerCase(Address1) \in DOMAIN store[2].peerSenderKeys

\* no public key of a peer has reached the client: peerPublicKeys holds at most
\* its own key, and it is not answering an x3dh_init
NoPeerKey(c) ==
    /\ DOMAIN store[c].peerPublicKeys \subseteq {toLowerCase(walletAddress[c])}
    /\ \A o \in ops : o.client = c => o.kind # "respond"

\* C30: a connected client whose status is handshaking and that receives no
\* peer public key becomes ready in the end (the empty-room fallback), and it
\* is ready without any ratchet state or sender key having been created.
C30_EmptyRoomFallback ==
    \A c \in Clients :
        (connectionStatus[c] = "connected" /\ store[c].encryptionStatus = "handshaking"
            /\ NoPeerKey(c))
        ~> \/ ~NoPeerKey(c)
           \/ /\ store[c].encryptionStatus = "ready"
              /\ store[c].doubleRatchetState = NULL
              /\ store[c].mySenderKeyState = NULL
              /\ DOMAIN store[c].peerSenderKeys = {}

\* a client alone in the room that the fallback has made ready
C30_Witness ==
    \E c \in Clients :
        /\ connectionStatus[c] = "connected" /\ connectionStatus[Peer(c)] = "disconnected"
        /\ store[c].encryptionStatus = "ready"
        /\ NoPeerKey(c)
        /\ store[c].doubleRatchetState = NULL /\ store[c].mySenderKeyState = NULL

\* the step closes socket s
Closes(s) ==
    /\ s \in DOMAIN webSocket.readyState
    /\ webSocket.readyState[s] # "CLOSED" /\ webSocket'.readyState[s] = "CLOSED"

\* C31: from disconnect() until the application calls connect() again no
\* WebSocket is created, whatever close events and reconnect timers of earlier
\* sockets are outstanding.
C31_NoSocketAfterDisconnect ==
    [][(webSocket.left /\ webSocket'.left) =>
          Len(webSocket'.readyState) = Len(webSocket.readyState)]_vars

C37_StaleCloseIgnored ==
    /\ [](webSocket.connectionStatus = "connected" =>
             /\ webSocket.socket # {}
             /\ \A s \in webSocket.socket : webSocket.readyState[s] = "OPEN")
    /\ [][\A s \in DOMAIN webSocket.readyState :
             (Closes(s) /\ s \notin webSocket.socket) =>
                 /\ webSocket'.connectionStatus = webSocket.connectionStatus
                 /\ webSocket'.socket = webSocket.socket]_vars

\* C38: at most one WebSocket created by connect() is CONNECTING or OPEN.
C38_OneLiveSocket ==
    Cardinality(Live(webSocket)) <= 1

\* C33: in group mode a peer whose public key arrives after the sender has
\* encrypted k > 0 messages is sent the sender's current chain key and decrypts
\* every message sent from then on: the copy of the chain it holds stands at the
\* index it is labelled with, and every chat frame of that sender at or beyond
\* that index that is still to be handled decrypts with the copy.
C33_LateJoinerInSync ==
    \A c \in Clients : \A a \in DOMAIN store[c].peerSenderKeys :
        LET copy == store[c].peerSenderKeys[a]
        IN  /\ copy.chainKey.n = copy.chainIndex
            /\ \A f \in net :
                  (/\ f.to = c /\ f.type = "chat" /\ "ciphertext" \in DOMAIN f.data
                   /\ toLowerCase(f.data.senderAddress) = a
                   /\ f.data.chainIndex >= copy.chainIndex)
                  => decryptWithSenderKey(copy, f.data).ok

\* C34: while peer public keys arrive in group mode the client creates its
\* sender key only when it has none: no step of the handshake replaces a
\* mySenderKeyState that exists by a chain made anew.
C34_SenderKeyCreatedOnce ==
    [][\A c \in Clients :
          store[c].mySenderKeyState # NULL
          => /\ store'[c].mySenderKeyState # NULL
             /\ store'[c].mySenderKeyState.chainKey.base =
                    store[c].mySenderKeyState.chainKey.base]_vars

\* C35: once a Double Ratchet session is established, no further x3dh_init or
\* x3dh_response frame replaces or alters doubleRatchetState, and every
\* x3dh_response is completed to the root key its responder derived, that is,
\* with the ephemeral key pair of the init it answers.
C35_SessionNotReplaced ==
    /\ [](\A e \in x3dhLog : \A r \in x3dhLog :
            (e.kind = "complete" /\ r.kind = "respond" /\ r.mid = e.mid)
            => e.rootKey = r.rootKey)
    /\ [][\A c \in Clients :
            store[c].doubleRatchetState # NULL
            => store'[c].doubleRatchetState = store[c].doubleRatchetState]_vars

\* the handshake effect of client c has nothing left to do: the client is
\* connected with its key pair, no presence frame for it is under way, none of
\* its operations is suspended and newPeers is empty
HandshakeSettled(c) ==
    /\ connectionStatus[c] = "connected"
    /\ store[c].encryptionStatus \in {"handshaking", "ready"}
    /\ store[c].encryptionKeyPair # NULL
    /\ PendingOf(c) = {}
    /\ NewPeers(c) = {}
    /\ ~\E f \in net : f.to = c /\ f.type \in {"user_joined", "i_am_here"}

\* C36: whenever a peer's public key is added to or replaced in peerPublicKeys
\* while the client is connected and handshaking or ready, the handshake for
\* that peer is started; in group mode: once the effect has nothing left to
\* do, a sender key has been sent for every peer key the client holds.
C36_HandshakeForEveryKey ==
    \A c \in Clients :
        HandshakeSettled(c)
        => \A a \in DOMAIN store[c].peerPublicKeys \ {toLowerCase(walletAddress[c])} :
              \E d \in x3dhLog : /\ d.kind = "distribute" /\ d.by = c
                                  /\ d.mid = store[c].peerPublicKeys[a]

\* C39: in every reachable state of a received transfer, receivedCount is the
\* number of stored chunks and status complete implies that chunks holds every
\* index 0 .. totalChunks - 1; a complete transfer stays complete and is
\* reassembled into a blob URL at most once, whatever chunk frames (repeated,
\* late, out of range) and completion frames arrive.
C39_ReceivedTransferConsistent ==
    /\ [](\A c \in Clients : \A id \in ReceivedBy(c) :
            LET t == transfers[c][id]
            IN  /\ t.receivedCount = Cardinality(DOMAIN t.chunks)
                /\ t.status = "complete"
                   => \A i \in 0 .. (t.meta.totalChunks - 1) : i \in DOMAIN t.chunks
                /\ t.objectUrls <= 1)
    /\ [][\A c \in Clients : \A id \in ReceivedBy(c) :
            transfers[c][id].status = "complete"
            => /\ id \in DOMAIN transfers'[c]
               /\ transfers'[c][id].status = "complete"]_vars

\* a complete transfer that holds an out-of-range chunk while another chunk
\* frame is on its way
C39_Witness ==
    \E c \in Clients : \E id \in ReceivedBy(c) :
        LET t == transfers[c][id]
        IN  /\ t.status = "complete"
            /\ t.objectUrls = 1
            /\ t.meta.totalChunks \in DOMAIN t.chunks
            /\ t.receivedCount = t.meta.totalChunks + 1
            /\ \E f \in net : f.to = c /\ f.type = "file_transfer_chunk"

\* C40: every chunk frame and the completion frame of a transfer take effect
\* however their handling interleaves with the handling of the start frame:
\* none is dropped, and once the start, the chunks and the completion have all
\* been handled the transfer is complete.
C40_NoFrameLost ==
    \A c \in Clients :
        /\ ~\E r \in results : r.to = c
        /\ TransferQuiet(c) => \A id \in ReceivedBy(c) : transfers[c][id].status = "complete"

\* C10: a Double Ratchet or sender key message whose chainIndex lies more than
\* MAX_SKIP ahead of the receiving index is rejected, decryptIncoming returns null
\* and writes nothing; a message exactly MAX_SKIP ahead is decrypted.
C10_SkipBound ==
    [][\A o \in ops :
          (o.kind \in {"decrypt", "decryptGroup"} /\ o \notin ops'
              /\ o.frame.data.ciphertext.intact) =>
              /\ Ahead(o) > MAX_SKIP =>
                    /\ store' = store
                    /\ \E r \in results' \ results : r.mid = o.mid /\ r.plaintext = NULL
              /\ Ahead(o) = MAX_SKIP =>
                    /\ store' # store
                    /\ \E r \in results' \ results : r.mid = o.mid /\ r.plaintext = o.mid]_vars

\* a message more than MAX_SKIP ahead has been rejected and one exactly MAX_SKIP
\* ahead has been decrypted
C10_Witness ==
    \E r1, r2 \in results :
        /\ r1.ahead > MAX_SKIP /\ r1.plaintext = NULL
        /\ r2.ahead = MAX_SKIP /\ r2.plaintext = r2.mid

====
